---- MODULE Spec2Model ----
(***************************************************************************)
(* A model of the bytecode interpreter core of src/run.cpp: the operand    *)
(* stack and frame chain of one thread, the constant-pool resolver, the    *)
(* native bridge, the exception unwinder and the dispatch loop, run over a *)
(* family of small class files.                                            *)
(*                                                                         *)
(* Handles.  An object is its index in heap (0 is null); a method is its   *)
(* index in MethodTable (0 is null); a class is its name.  t->code is      *)
(* modelled by the method whose code it is (0 is null): the handlers store *)
(* a method in it before "goto invoke", and pushFrame/popFrame store       *)
(* methodCode(method).                                                     *)
(***************************************************************************)
EXTENDS Integers, Sequences, FiniteSets, TLC

\* Thread::StackSizeInWords / 2: the capacity of the stack in slots.
StackSlots == 16
\* The number of objects the heap holds.
MaxHeap == 8
\* How many libraries the chain t->vm->libraries holds.
NumLibraries == 2

\* The length of the arrays an embedding passes.
ArrayLength == 2

\* How many times one native call may call the launcher back.
MaxCallbacks == 1

\* Frame record layout (machine.h).
FrameBaseOffset == 0
FrameNextOffset == 1
FrameMethodOffset == 2
FrameIpOffset == 3
FrameFootprint == 4

\* The memory the model keeps for the stack: the array and what follows it.
StackDomain == 0 .. (StackSlots + FrameFootprint + 4)

TwoTo8 == 256
\* sizeof(uintptr_t): a word of the stack is an int32_t.
BytesPerWord == 4
\* The largest and the smallest int32_t.
MaxInt32 == 2147483647
MinInt32 == (-2147483647) - 1

\* Opcode values of the class-file format (constants.h).
Op ==
  [ aconst_null |-> 1, iconst_0 |-> 3, iconst_1 |-> 4,
    lconst_0 |-> 9, lconst_1 |-> 10,
    bipush |-> 16, sipush |-> 17, iload |-> 21, lload |-> 22, aload |-> 25,
    iload_0 |-> 26, iload_1 |-> 27, iload_2 |-> 28, lload_0 |-> 30, lload_2 |-> 32,
    aload_0 |-> 42, aload_1 |-> 43, aload_2 |-> 44,
    iaload |-> 46, laload |-> 47, aaload |-> 50, baload |-> 51, caload |-> 52,
    saload |-> 53, lstore_1 |-> 64,
    istore |-> 54, lstore |-> 55, astore |-> 58, astore_0 |-> 75,
    iastore |-> 79, lastore |-> 80, aastore |-> 83, bastore |-> 84, castore |-> 85,
    sastore |-> 86,
    pop_ |-> 87, pop2 |-> 88, dup |-> 89, dup_x1 |-> 90, dup_x2 |-> 91, dup2 |-> 92, dup2_x1 |-> 93,
    dup2_x2 |-> 94, swap |-> 95, iadd |-> 96,
    idiv |-> 108, ldiv |-> 109, irem |-> 112, lrem |-> 113, lneg |-> 117, lshl |-> 121, lshr |-> 123, lushr |-> 125,
    iushr |-> 124, iinc |-> 132,
    ifeq |-> 153, ifne |-> 154, iflt |-> 155, ifge |-> 156, ifgt |-> 157, ifle |-> 158,
    if_icmpeq |-> 159, if_icmpne |-> 160, if_icmplt |-> 161, if_icmpge |-> 162,
    if_icmpgt |-> 163, if_icmple |-> 164, if_acmpeq |-> 165, if_acmpne |-> 166,
    goto_ |-> 167, jsr |-> 168, ret |-> 169, wide |-> 196,
    ifnull |-> 198, ifnonnull |-> 199, goto_w |-> 200, jsr_w |-> 201,
    ireturn |-> 172, lreturn |-> 173, areturn |-> 176, return_ |-> 177,
    getstatic |-> 178, putstatic |-> 179, getfield |-> 180,
    invokevirtual |-> 182, invokespecial |-> 183, invokestatic |-> 184, invokeinterface |-> 185,
    new_ |-> 187, checkcast |-> 192, instanceof |-> 193, athrow |-> 191 ]

\* A two-byte big-endian operand.
U2(n) == << n \div TwoTo8, n % TwoTo8 >>

----------------------------------------------------------------------------
(* Integer widths.                                                         *)

\* A word is an int32_t; a uint32_t is the int32_t with the same bits.  A
\* long is its two words, [hi, lo].
Long(hi, lo) == [hi |-> hi, lo |-> lo]

\* a + b in int32_t, wrapping
add32(a, b) ==
  IF a >= 0 /\ b >= 0 /\ a > MaxInt32 - b THEN (a + MinInt32) + (b + MinInt32)
  ELSE IF a < 0 /\ b < 0 /\ a < MinInt32 - b THEN (a + MaxInt32 + 1) + (b + MaxInt32 + 1)
  ELSE a + b

\* a >= b and a < b in uint32_t
uge32(a, b) == IF (a < 0) = (b < 0) THEN a >= b ELSE a < 0
ult32(a, b) == ~uge32(a, b)

\* w << 1 in uint32_t: drop the top bit, double what is left
shl32(w) ==
  LET low == IF w < 0 THEN w + MaxInt32 + 1 ELSE w
  IN IF low > MaxInt32 \div 2
     THEN ((low - MaxInt32 \div 2 - 1) * 2) + MinInt32
     ELSE low * 2

\* a >> n in int32_t, 0 <= n < 32: the sign bit is copied into the places
\* the shift frees.
sar32(a, n) ==
  IF n = 31 THEN (IF a < 0 THEN -1 ELSE 0) ELSE a \div (2 ^ n)

\* The uint32_t a shifted right by n, 0 <= n < 32, zeros filling the places
\* the shift frees: what a logical shift gives.
shr32(a, n) ==
  IF a >= 0 \/ n = 0 THEN sar32(a, n)
  ELSE ((a - MinInt32) \div (2 ^ n)) + 2 ^ (31 - n)

\* a << n in int64_t, 0 <= n < 64
RECURSIVE shl64(_, _)
shl64(a, n) ==
  IF n = 0 THEN a
  ELSE LET carry == IF a.lo < 0 THEN 1 ELSE 0
       IN shl64(Long(shl32(a.hi) + carry, shl32(a.lo)), n - 1)

\* a >> n in int64_t (arithmetic) or uint64_t (not), 0 <= n < 64
RECURSIVE shr64(_, _, _)
shr64(a, n, arithmetic) ==
  IF n = 0 THEN a
  ELSE LET carry == IF a.hi % 2 = 1 THEN MinInt32 ELSE 0
           hi == IF arithmetic THEN sar32(a.hi, 1) ELSE shr32(a.hi, 1)
       IN shr64(Long(hi, shr32(a.lo, 1) + carry), n - 1, arithmetic)

----------------------------------------------------------------------------
(* The class files the interpreter is run on.                              *)

\* A constant-pool entry.  tag is the type of the object in the slot:
\* "ByteArray" a symbolic class name, "Class" a resolved class, "Reference" a
\* symbolic {class-name, name, spec}, "Field"/"Method" a resolved member,
\* "Null" no object.  rc: the Reference's class slot holds a resolved class.
ClassName(c) == [tag |-> "ByteArray", class |-> c, name |-> "", spec |-> "", rc |-> FALSE]
Reference(c, n, s) == [tag |-> "Reference", class |-> c, name |-> n, spec |-> s, rc |-> FALSE]
NullEntry == [tag |-> "Null", class |-> "", name |-> "", spec |-> "", rc |-> FALSE]

\* An exception-handler table entry.
Handler(start, end, ip, catchType) ==
  [start |-> start, end |-> end, ip |-> ip, catchType |-> catchType]

Method(c, n, s, flags, footprint, count, offset, maxLocals, maxStack, body, eht) ==
  [class |-> c, name |-> n, spec |-> s, flags |-> flags,
   parameterFootprint |-> footprint, parameterCount |-> count, offset |-> offset,
   maxLocals |-> maxLocals, maxStack |-> maxStack, body |-> body, eht |-> eht]

Throwable == "java/lang/Throwable"
NullPointerException == "java/lang/NullPointerException"
StackOverflowError == "java/lang/StackOverflowError"
NoSuchFieldError == "java/lang/NoSuchFieldError"
NoSuchMethodError == "java/lang/NoSuchMethodError"
ClassNotFoundException == "java/lang/ClassNotFoundException"
UnsatisfiedLinkError == "java/lang/UnsatisfiedLinkError"
ArrayIndexOutOfBoundsException == "java/lang/ArrayIndexOutOfBoundsException"
ClassCastException == "java/lang/ClassCastException"

\* The constant pool of class Main, as loaded.
MainPool ==
  << Reference("K", "f", "I"),                      \* 1
     ClassName("K"),                                \* 2
     Reference("K", "sm", "()V"),                   \* 3
     Reference("K", "ssm", "()V"),                  \* 4
     Reference("K", "si", "()I"),                   \* 5
     Reference("K", "sl", "()J"),                   \* 6
     Reference("K", "sa", "()Ljava/lang/Object;"),  \* 7
     Reference("K", "st", "()V"),                   \* 8
     Reference("Base", "m", "()V"),                 \* 9
     ClassName("Boot"),                             \* 10
     Reference("Main", "nofield", "I"),             \* 11
     ClassName("Missing"),                          \* 12
     ClassName(Throwable),                          \* 13
     ClassName("UserExc"),                          \* 14
     Reference("K", "<init>", "()V"),               \* 15
     Reference("Main", "rec", "()V"),               \* 16
     Reference("Main", "nat", "()I"),               \* 17
     Reference("Main", "add", "(II)I"),             \* 18
     ClassName(NullPointerException),               \* 19
     Reference("K", "g", "I"),                      \* 20
     Reference("Main", "nosuch", "()V"),            \* 21
     Reference("Main", "deep", "()V"),              \* 22
     ClassName("Weak"),                             \* 23
     Reference("Sub", "up", "()V"),                 \* 24
     Reference("Sub", "<init>", "()V"),             \* 25
     Reference("Old", "up", "()V"),                 \* 26
     Reference("K", "so", "(Ljava/lang/Object;)V"), \* 27
     Reference("Runner", "go", "()V"),              \* 28
     ClassName("Impl"),                             \* 29
     ClassName("Heir") >>                           \* 30

\* The constant pool of the classes Sub and Old, as loaded.
SubPool ==
  << Reference("Base", "m", "()V"),                 \* 1
     Reference("Boot", "<init>", "()V") >>          \* 2

\* Every method of every class file; a method's handle is its index here.
MethodTable ==
  LET root(n, maxStack, body, eht) ==
        Method("Main", n, "(LBoot;)V", {"STATIC"}, 1, 1, 0, 1, maxStack, body, eht)
      any(start, end, ip) == Handler(start, end, ip, 0)
  IN
  << \* first use of K by getstatic / putstatic / new / invokestatic
     root("rGetstatic", 1, <<Op.getstatic>> \o U2(1) \o <<Op.pop_, Op.return_>>, <<>>),
     root("rPutstatic", 1, <<Op.iconst_0, Op.putstatic>> \o U2(1) \o <<Op.return_>>, <<>>),
     root("rNew", 1, <<Op.new_>> \o U2(2) \o <<Op.pop_, Op.return_>>, <<>>),
     root("rInvokestatic", 1,
          <<Op.invokestatic>> \o U2(3) \o <<Op.getstatic>> \o U2(1)
          \o <<Op.pop_, Op.return_>>, <<>>),
     \* synchronized methods left by return, ireturn, lreturn, areturn
     root("rSync", 2,
          <<Op.invokestatic>> \o U2(4)
          \o <<Op.new_>> \o U2(2) \o <<Op.invokevirtual>> \o U2(5) \o <<Op.pop_>>
          \o <<Op.invokestatic>> \o U2(6) \o <<Op.pop2>>
          \o <<Op.new_>> \o U2(2) \o <<Op.invokevirtual>> \o U2(7) \o <<Op.pop_>>
          \o <<Op.return_>>, <<>>),
     \* a synchronized method left by an exception, caught by the caller
     root("rSyncCaught", 1,
          <<Op.new_>> \o U2(2) \o <<Op.invokevirtual>> \o U2(8)
          \o <<Op.return_, Op.pop_, Op.return_>>,
          << Handler(0, 6, 7, 13) >>),
     \* a synchronized method left by an exception nobody catches
     root("rSyncUncaught", 1,
          <<Op.new_>> \o U2(2) \o <<Op.invokevirtual>> \o U2(8) \o <<Op.return_>>,
          <<>>),
     \* a virtual call on the bootstrap object, then a first use of its class
     root("rVirtual", 1,
          <<Op.aload_0, Op.invokevirtual>> \o U2(9)
          \o <<Op.new_>> \o U2(10) \o <<Op.pop_, Op.return_>>, <<>>),
     \* long shifts by an int count, the result stored or dropped
     Method("Main", "rLshl", "(LBoot;)V", {"STATIC"}, 1, 1, 0, 3, 3,
            <<Op.lconst_0, Op.iconst_0, Op.lshl, Op.lstore_1,
              Op.lconst_0, Op.iconst_0, Op.lshl, Op.pop2,
              Op.lconst_0, Op.iconst_0, Op.lshl, Op.pop2,
              Op.lconst_0, Op.iconst_0, Op.lshl, Op.pop2,
              Op.return_>>, <<>>),
     \* a field no class declares, looked up twice
     root("rMissingField", 1,
          <<Op.getstatic>> \o U2(11) \o <<Op.pop_, Op.return_>>
          \o <<Op.pop_, Op.getstatic>> \o U2(11) \o <<Op.pop_, Op.return_>>,
          << any(0, 3, 5) >>),
     \* a handler whose catch class may be absent from the class path
     root("rCatchMissing", 1,
          <<Op.aconst_null, Op.athrow, Op.pop_, Op.return_>>,
          << Handler(0, 2, 2, 12) >>),
     \* two handlers over one range: the first does not match, the second does
     root("rCatchTyped", 1,
          <<Op.aconst_null, Op.athrow, Op.pop_, Op.pop_, Op.return_>>,
          << Handler(0, 2, 2, 14), Handler(0, 2, 3, 19) >>),
     \* unbounded recursion, the overflow caught at the root
     root("rRecurse", 1,
          <<Op.invokestatic>> \o U2(16) \o <<Op.return_, Op.pop_, Op.return_>>,
          << any(0, 3, 4) >>),
     \* a native call
     root("rNative", 1,
          <<Op.invokestatic>> \o U2(17) \o <<Op.pop_, Op.return_>>, <<>>),
     \* a native call made again, after it returned or after it threw
     root("rNativeAgain", 1,
          <<Op.invokestatic>> \o U2(17) \o <<Op.pop_>>
          \o <<Op.invokestatic>> \o U2(17) \o <<Op.pop_, Op.return_>>,
          << any(0, 3, 3) >>),
     \* a static call with arguments and a result
     root("rSum", 2,
          <<Op.iconst_1, Op.iconst_1, Op.invokestatic>> \o U2(18)
          \o <<Op.pop_, Op.return_>>, <<>>),
     \* a constructor call
     root("rCtor", 2,
          <<Op.new_>> \o U2(2) \o <<Op.dup, Op.invokespecial>> \o U2(15)
          \o <<Op.pop_, Op.return_>>, <<>>),
     \* a field read of an instance, then of null
     root("rGetfield", 1,
          <<Op.new_>> \o U2(2) \o <<Op.getfield>> \o U2(20) \o <<Op.pop_>>
          \o <<Op.aconst_null, Op.getfield>> \o U2(20) \o <<Op.return_>>, <<>>),
     \* a method no class declares, called inside a try
     root("rMissingMethod", 1,
          <<Op.invokestatic>> \o U2(21) \o <<Op.return_, Op.pop_, Op.return_>>,
          << any(0, 3, 4) >>),
     \* recursion to the depth the stack allows, then a first use of K there
     root("rDeepInit", 1, <<Op.invokestatic>> \o U2(22) \o <<Op.return_>>, <<>>),
     \* two instances of a weak-reference class, then one of a plain class
     root("rWeak", 1,
          <<Op.new_>> \o U2(23) \o <<Op.pop_, Op.new_>> \o U2(23)
          \o <<Op.pop_, Op.new_>> \o U2(13) \o <<Op.pop_, Op.return_>>, <<>>),
     \* calls of a method that calls Base.m by invokespecial from a subclass of
     \* Boot, of a constructor that calls Boot's, of the same call from a class
     \* without ACC_SUPER, and a call on null
     root("rSuper", 1,
          <<Op.aload_0, Op.invokespecial>> \o U2(24)
          \o <<Op.aload_0, Op.invokespecial>> \o U2(25)
          \o <<Op.aload_0, Op.invokespecial>> \o U2(26)
          \o <<Op.aconst_null, Op.invokespecial>> \o U2(24) \o <<Op.return_>>, <<>>),
     \* an interface call on an instance of the implementing class and on one
     \* of a subclass of it
     root("rInterface", 1,
          <<Op.new_>> \o U2(29) \o <<Op.invokeinterface>> \o U2(28) \o <<1, 0,
            Op.new_>> \o U2(30) \o <<Op.invokeinterface>> \o U2(28) \o <<1, 0,
            Op.return_>>, <<>>),
     \* a synchronized call whose body overwrites local 0
     root("rSyncStore", 2,
          <<Op.new_>> \o U2(2) \o <<Op.aload_0, Op.invokevirtual>> \o U2(27)
          \o <<Op.return_>>, <<>>),
     \* type tests and casts of the bootstrap object and of null
     root("rCast", 5,
          <<Op.aload_0, Op.instanceof>> \o U2(10) \o <<Op.pop_,
            Op.aload_0, Op.instanceof>> \o U2(2) \o <<Op.pop_,
            Op.aconst_null, Op.instanceof>> \o U2(10) \o <<Op.pop_,
            Op.aload_0, Op.checkcast>> \o U2(10) \o <<Op.pop_,
            Op.aconst_null, Op.checkcast>> \o U2(2) \o <<Op.pop_,
            Op.aload_0, Op.checkcast>> \o U2(2) \o <<Op.pop_, Op.return_>>, <<>>),
     \* the dup family on two ints, an object and an int
     root("rDup", 8,
          <<Op.bipush, 11, Op.bipush, 12, Op.aload_0, Op.bipush, 14,
            Op.dup_x1, Op.pop_, Op.dup_x2, Op.pop_, Op.dup2_x1, Op.pop2,
            Op.dup2_x2, Op.pop2, Op.dup2, Op.pop2, Op.pop2, Op.pop2, Op.return_>>, <<>>),
     \* dup; swap and swap; dup on an object under an int
     root("rDupSwap", 3,
          <<Op.aload_0, Op.iconst_1, Op.dup, Op.swap, Op.pop_, Op.pop_, Op.pop_,
            Op.aload_0, Op.iconst_1, Op.swap, Op.dup, Op.pop_, Op.pop_, Op.pop_,
            Op.return_>>, <<>>),
     \* an exception made by new and caught by its class: the handler's catch
     \* type is the pool slot that new has resolved
     root("rCatchMade", 1,
          <<Op.new_>> \o U2(19) \o <<Op.athrow, Op.pop_, Op.return_>>,
          << Handler(0, 4, 4, 19) >>),
     Method("Main", "rec", "()V", {"STATIC"}, 0, 0, 0, 0, 0,
            <<Op.invokestatic>> \o U2(16) \o <<Op.return_>>, <<>>),
     Method("Main", "nat", "()I", {"STATIC", "NATIVE"}, 0, 0, 0, 0, 0, <<>>, <<>>),
     Method("Main", "natArr", "([I)V", {"STATIC", "NATIVE"}, 1, 1, 0, 0, 0, <<>>, <<>>),
     Method("Main", "natMix", "(IJLBoot;)V", {"STATIC", "NATIVE"}, 4, 3, 0, 0, 0, <<>>, <<>>),
     Method("Main", "natDeep", "([[LBoot;I)V", {"STATIC", "NATIVE"}, 2, 2, 0, 0, 0, <<>>, <<>>),
     Method("Main", "add", "(II)I", {"STATIC"}, 2, 2, 0, 2, 2,
            <<Op.iload_0, Op.iload_1, Op.iadd, Op.ireturn>>, <<>>),
     Method("Main", "cb", "()I", {"STATIC"}, 0, 0, 0, 0, 1,
            <<Op.iconst_1, Op.ireturn>>, <<>>),
     Method("Main", "deep", "()V", {"STATIC"}, 0, 0, 0, 0, 1,
            <<Op.invokestatic>> \o U2(22) \o <<Op.return_, Op.pop_, Op.getstatic>>
            \o U2(1) \o <<Op.pop_, Op.return_>>,
            << any(0, 3, 4) >>),
     \* methods an embedding calls the launcher on
     \* a / b and a % b, of ints and of longs
     Method("Main", "idiv", "(II)I", {"STATIC"}, 2, 2, 0, 2, 2,
            <<Op.iload_0, Op.iload_1, Op.idiv, Op.ireturn>>, <<>>),
     Method("Main", "irem", "(II)I", {"STATIC"}, 2, 2, 0, 2, 2,
            <<Op.iload_0, Op.iload_1, Op.irem, Op.ireturn>>, <<>>),
     Method("Main", "iushr", "(II)I", {"STATIC"}, 2, 2, 0, 2, 2,
            <<Op.iload_0, Op.iload_1, Op.iushr, Op.ireturn>>, <<>>),
     \* a long negated, then longs shifted right by an int count
     Method("Main", "lneg", "(JJ)J", {"STATIC"}, 4, 2, 0, 4, 5,
            <<Op.lload_0, Op.lneg, Op.pop2, Op.pop_,
              Op.lload_2, Op.lload_0, Op.iconst_1, Op.lshr, Op.pop2, Op.pop_,
              Op.lload_2, Op.lload_0, Op.iconst_1, Op.lushr, Op.pop2, Op.pop_,
              Op.lload_2, Op.lreturn>>, <<>>),
     Method("Main", "ldiv", "(JJ)J", {"STATIC"}, 4, 2, 0, 4, 4,
            <<Op.lload_0, Op.lload_2, Op.ldiv, Op.lreturn>>, <<>>),
     Method("Main", "lrem", "(JJ)J", {"STATIC"}, 4, 2, 0, 4, 4,
            <<Op.lload_0, Op.lload_2, Op.lrem, Op.lreturn>>, <<>>),
     \* a[i] = v; return a[i], for each kind of element
     Method("Main", "ints", "([III)I", {"STATIC"}, 3, 3, 0, 3, 3,
            <<Op.aload_0, Op.iload_1, Op.iload_2, Op.iastore,
              Op.aload_0, Op.iload_1, Op.iaload, Op.ireturn>>, <<>>),
     Method("Main", "bytes", "([BII)I", {"STATIC"}, 3, 3, 0, 3, 3,
            <<Op.aload_0, Op.iload_1, Op.iload_2, Op.bastore,
              Op.aload_0, Op.iload_1, Op.baload, Op.ireturn>>, <<>>),
     Method("Main", "chars", "([CII)I", {"STATIC"}, 3, 3, 0, 3, 3,
            <<Op.aload_0, Op.iload_1, Op.iload_2, Op.castore,
              Op.aload_0, Op.iload_1, Op.caload, Op.ireturn>>, <<>>),
     Method("Main", "shorts", "([SII)I", {"STATIC"}, 3, 3, 0, 3, 3,
            <<Op.aload_0, Op.iload_1, Op.iload_2, Op.sastore,
              Op.aload_0, Op.iload_1, Op.saload, Op.ireturn>>, <<>>),
     Method("Main", "longs", "([JIJ)J", {"STATIC"}, 4, 3, 0, 4, 4,
            <<Op.aload_0, Op.iload_1, Op.lload_2, Op.lastore,
              Op.aload_0, Op.iload_1, Op.laload, Op.lreturn>>, <<>>),
     Method("Main", "objects", "([LBoot;ILBoot;)Ljava/lang/Object;", {"STATIC"}, 3, 3, 0, 3, 3,
            <<Op.aload_0, Op.iload_1, Op.aload_2, Op.aastore,
              Op.aload_0, Op.iload_1, Op.aaload, Op.areturn>>, <<>>),
     \* the immediates of bipush and of sipush, small and large
     Method("Main", "push", "()I", {"STATIC"}, 0, 0, 0, 0, 1,
            <<Op.bipush, 127, Op.pop_, Op.bipush, 128, Op.pop_, Op.bipush, 255, Op.pop_,
              Op.sipush>> \o U2(32767) \o <<Op.pop_, Op.sipush>> \o U2(32768)
            \o <<Op.pop_, Op.sipush>> \o U2(65535) \o <<Op.ireturn>>, <<>>),
     \* the local incremented by 1, -1 (0xFF), 1 (wide) and -1 (wide, 0xFFFF)
     Method("Main", "inc", "(I)I", {"STATIC"}, 1, 1, 0, 1, 1,
            <<Op.iinc, 0, 1, Op.iinc, 0, 255, Op.wide, Op.iinc, 0, 0, 0, 1,
              Op.wide, Op.iinc, 0, 0, 255, 255, Op.wide, Op.iload, 0, 0, Op.ireturn>>,
            <<>>),
     \* each conditional branch over two bytes of code, taken or not
     Method("Main", "cmp", "(II)I", {"STATIC"}, 2, 2, 0, 2, 2,
            <<Op.iload_0, Op.iload_1, Op.if_icmpeq, 0, 5, Op.iconst_0, Op.pop_,
              Op.iload_0, Op.iload_1, Op.if_icmpne, 0, 5, Op.iconst_0, Op.pop_,
              Op.iload_0, Op.iload_1, Op.if_icmplt, 0, 5, Op.iconst_0, Op.pop_,
              Op.iload_0, Op.iload_1, Op.if_icmpge, 0, 5, Op.iconst_0, Op.pop_,
              Op.iload_0, Op.iload_1, Op.if_icmpgt, 0, 5, Op.iconst_0, Op.pop_,
              Op.iload_0, Op.iload_1, Op.if_icmple, 0, 5, Op.iconst_0, Op.pop_,
              Op.iconst_0, Op.ireturn>>, <<>>),
     Method("Main", "sign", "(I)I", {"STATIC"}, 1, 1, 0, 1, 1,
            <<Op.iload_0, Op.ifeq, 0, 5, Op.iconst_0, Op.pop_,
              Op.iload_0, Op.ifne, 0, 5, Op.iconst_0, Op.pop_,
              Op.iload_0, Op.iflt, 0, 5, Op.iconst_0, Op.pop_,
              Op.iload_0, Op.ifge, 0, 5, Op.iconst_0, Op.pop_,
              Op.iload_0, Op.ifgt, 0, 5, Op.iconst_0, Op.pop_,
              Op.iload_0, Op.ifle, 0, 5, Op.iconst_0, Op.pop_,
              Op.iconst_0, Op.ireturn>>, <<>>),
     Method("Main", "same", "(LBoot;)Ljava/lang/Object;", {"STATIC"}, 1, 1, 0, 1, 2,
            <<Op.aload_0, Op.aload_0, Op.if_acmpeq, 0, 5, Op.iconst_0, Op.pop_,
              Op.aload_0, Op.aconst_null, Op.if_acmpeq, 0, 5, Op.iconst_0, Op.pop_,
              Op.aload_0, Op.aload_0, Op.if_acmpne, 0, 5, Op.iconst_0, Op.pop_,
              Op.aload_0, Op.aconst_null, Op.if_acmpne, 0, 5, Op.iconst_0, Op.pop_,
              Op.aload_0, Op.ifnull, 0, 5, Op.iconst_0, Op.pop_,
              Op.aconst_null, Op.ifnull, 0, 5, Op.iconst_0, Op.pop_,
              Op.aload_0, Op.ifnonnull, 0, 5, Op.iconst_0, Op.pop_,
              Op.aconst_null, Op.ifnonnull, 0, 5, Op.iconst_0, Op.pop_,
              Op.aload_0, Op.areturn>>, <<>>),
     \* goto 8; 3: goto_w 13; 8: goto 3; 13: jsr 21; 16: jsr_w 27; 21: pop;
     \* 22: goto_w 16; 27: pop; 28: iconst_1; 29: ireturn
     Method("Main", "jump", "()I", {"STATIC"}, 0, 0, 0, 0, 1,
            <<Op.goto_, 0, 8, Op.goto_w, 0, 0, 0, 10, Op.goto_, 255, 251,
              Op.iconst_0, Op.ireturn, Op.jsr, 0, 8, Op.jsr_w, 0, 0, 0, 11,
              Op.pop_, Op.goto_w, 255, 255, 255, 250, Op.pop_, Op.iconst_1, Op.ireturn>>,
            <<>>),
     \* dup; swap and swap; dup on two ints
     Method("Main", "pair", "(II)I", {"STATIC"}, 2, 2, 0, 2, 3,
            <<Op.iload_0, Op.iload_1, Op.dup, Op.swap, Op.pop_, Op.pop_, Op.pop_,
              Op.iload_0, Op.iload_1, Op.swap, Op.dup, Op.pop_, Op.pop_, Op.ireturn>>,
            <<>>),
     Method("Main", "one", "()J", {"STATIC"}, 0, 0, 0, 0, 2,
            <<Op.lconst_1, Op.lreturn>>, <<>>),
     Method("Main", "id", "(LBoot;)Ljava/lang/Object;", {"STATIC"}, 1, 1, 0, 1, 1,
            <<Op.aload_0, Op.areturn>>, <<>>),
     Method("K", "<clinit>", "()V", {"STATIC"}, 0, 0, 0, 0, 1,
            <<Op.iconst_1, Op.putstatic>> \o U2(1) \o <<Op.return_>>, <<>>),
     Method("K", "<init>", "()V", {}, 1, 0, 0, 1, 0, <<Op.return_>>, <<>>),
     Method("K", "sm", "()V", {"STATIC"}, 0, 0, 0, 0, 0, <<Op.return_>>, <<>>),
     Method("K", "ssm", "()V", {"STATIC", "SYNCHRONIZED"}, 0, 0, 0, 0, 0,
            <<Op.return_>>, <<>>),
     Method("K", "si", "()I", {"SYNCHRONIZED"}, 1, 0, 0, 1, 1,
            <<Op.iconst_1, Op.ireturn>>, <<>>),
     Method("K", "sl", "()J", {"STATIC", "SYNCHRONIZED"}, 0, 0, 0, 0, 2,
            <<Op.lconst_1, Op.lreturn>>, <<>>),
     Method("K", "sa", "()Ljava/lang/Object;", {"SYNCHRONIZED"}, 1, 0, 1, 1, 1,
            <<Op.aload_0, Op.areturn>>, <<>>),
     Method("K", "st", "()V", {"SYNCHRONIZED"}, 1, 0, 2, 1, 1,
            <<Op.aconst_null, Op.athrow>>, <<>>),
     Method("Base", "<clinit>", "()V", {"STATIC"}, 0, 0, 0, 0, 0, <<Op.return_>>, <<>>),
     Method("Base", "m", "()V", {}, 1, 0, 0, 1, 0, <<Op.return_>>, <<>>),
     Method("Boot", "<clinit>", "()V", {"STATIC"}, 0, 0, 0, 0, 0, <<Op.return_>>, <<>>),
     Method("Boot", "m", "()V", {}, 1, 0, 0, 1, 0, <<Op.return_>>, <<>>),
     Method("Boot", "<init>", "()V", {}, 1, 0, 0, 1, 0, <<Op.return_>>, <<>>),
     Method("Sub", "<init>", "()V", {}, 1, 0, 0, 1, 1,
            <<Op.aload_0, Op.invokespecial>> \o U2(2) \o <<Op.return_>>, <<>>),
     Method("Sub", "up", "()V", {}, 1, 0, 1, 1, 1,
            <<Op.aload_0, Op.invokespecial>> \o U2(1) \o <<Op.return_>>, <<>>),
     Method("Old", "up", "()V", {}, 1, 0, 1, 1, 1,
            <<Op.aload_0, Op.invokespecial>> \o U2(1) \o <<Op.return_>>, <<>>),
     \* a synchronized method that stores its argument over "this"
     Method("K", "so", "(Ljava/lang/Object;)V", {"SYNCHRONIZED"}, 2, 1, 3, 2, 1,
            <<Op.aload_1, Op.astore_0, Op.return_>>, <<>>),
     \* an interface method and the method of the class that implements it
     Method("Runner", "go", "()V", {"ABSTRACT"}, 1, 0, 0, 0, 0, <<>>, <<>>),
     Method("Impl", "go", "()V", {}, 1, 0, 0, 1, 0, <<Op.return_>>, <<>>) >>

----------------------------------------------------------------------------
(* The state.                                                              *)

VARIABLES
  stack,        \* t->stack: slot -> [v: the value word, tag: the is-object word]
  sp,           \* t->sp
  frame,        \* t->frame, -1 when there is none
  ip,           \* t->ip
  code,         \* t->code
  exception,    \* t->exception, 0 when none is pending
  state,        \* t->state
  pool,         \* class -> its constant pool, rewritten by the resolver
  initializer,  \* class -> classInitializer(class), 0 once cleared
  virtualTable, \* class -> classVirtualTable(class) # 0
  nativeCode,   \* native method -> methodCode(method): the symbol or the bound data
  heap,         \* object -> [class, fields]
  statics,      \* class -> classStaticTable(class)
  monitors,     \* hold count of every object's and every class's monitor
  weakReferences, \* t->vm->weakReferences: the newest registered instance, or 0
  classPath,    \* the classes the class finder finds
  symbols,      \* the native symbols the libraries and the builtin map resolve
  pc,           \* where the thread is: "start", "loop", "native", "done", "undefined",
                \* or "abort" once abort(t) was called
  cstack,       \* the native calls in progress, innermost last
  classes,      \* the class files read: class name -> class
  methods,      \* the methods of the class files read: handle -> method
  exitCode,     \* what run(System*, ...) returned
  stderr,       \* what has been printed to stderr, a header and a trace at a time
  resolvers,    \* the threads that resolve one pool slot at the same time
  initializers, \* the threads that run an instruction that initializes one class
  registrars,   \* the threads that make weak references, and referenceLock
  obs           \* history kept for the properties; the program never reads it

vars ==
  << stack, sp, frame, ip, code, exception, state, pool, initializer, virtualTable,
     nativeCode, heap, statics, monitors, weakReferences, classPath, symbols, pc,
     cstack, exitCode, stderr, classes, methods, resolvers, initializers, registrars, obs >>

\* The handles of the methods loaded.
Methods == DOMAIN methods

\* The handle of the method of class c named n.
MethodOf(c, n) ==
  CHOOSE m \in Methods : methods[m].class = c /\ methods[m].name = n

\* The methods the launcher is started on.
Roots == { m \in Methods : methods[m].spec = "(LBoot;)V" }

\* The methods an embedding calls the launcher on, with arguments.
Entries ==
  { m \in Methods :
      /\ methods[m].class = "Main"
      /\ methods[m].spec \in
           {"(II)I", "(JJ)J", "()J", "()I", "(I)I", "(LBoot;)Ljava/lang/Object;", "([III)I", "([BII)I",
            "([CII)I", "([SII)I", "([JIJ)J", "([LBoot;ILBoot;)Ljava/lang/Object;"} }

\* The ints an embedding passes; the indices and the elements it passes to
\* the array methods; the length of the array it makes for them.
IntArgs == { MinInt32, -1, 0, 1, 7 }
LongArgs ==
  ({ Long(-1, -7), Long(0, 7), Long(-1, MinInt32) }
   \X { Long(0, 0), Long(-1, -1), Long(0, 1), Long(0, 2) })
  \cup ({ Long(MinInt32, 0) } \X { Long(0, 0), Long(-1, -1), Long(0, 1) })
IndexArgs == { -1, 0, ArrayLength }
ElementArgs == { -1, 200, 70000 }

\* A field: code is its type letter, offset its place in the instance or in
\* the static table.
Field(c, n, s, offset, static) ==
  [class |-> c, name |-> n, spec |-> s, offset |-> offset, static |-> static]

Class(super, flags, fields, table, vtable, clinit, constantPool, size) ==
  [super |-> super, flags |-> flags, fieldTable |-> fields,
   methodTable |-> table, virtualTable |-> vtable, interfaceTable |-> <<>>,
   initializer |-> clinit, pool |-> constantPool, fixedSize |-> size]

Plain(super) == Class(super, {"SUPER"}, <<>>, <<>>, <<>>, 0, <<>>, 0)

\* classVmFlags(t, class_) & WeakReferenceFlag: the flag set of a class holds
\* the bits of both of its flag words.
WeakReferenceFlag == "WeakReference"

\* jreferenceNext(t, r), the word at 3 * BytesPerWord of r
JreferenceNext == 3

\* A throwable class: its instances hold a message, a trace and a cause.
ThrowableMessage == 1
ThrowableTrace == 2
ThrowableCause == 3
Exception(super) == Class(super, {"SUPER"}, <<>>, <<>>, <<>>, 0, <<>>, 3)

ClassNames ==
  { "java/lang/Object", Throwable, NullPointerException, StackOverflowError,
    NoSuchFieldError, NoSuchMethodError, ClassNotFoundException,
    UnsatisfiedLinkError, ArrayIndexOutOfBoundsException, ClassCastException,
    "UserExc", "Missing", "Main", "K", "Base", "Boot", "Runner", "Impl", "Heir",
    "Int", "Long", "Weak", "Sub", "Old" }

\* Every class file, by name.  "" is the null class (the super of Object).
ClassTable ==
  [ c \in ClassNames |->
      CASE c = "java/lang/Object" -> Plain("")
        [] c = Throwable -> Exception("java/lang/Object")
        [] c = "Missing" -> Plain("java/lang/Object")
        [] c \in {"Int", "Long"} ->
             Class("java/lang/Object", {"SUPER"}, <<>>, <<>>, <<>>, 0, <<>>, 1)
        [] c = "Weak" ->
             Class("java/lang/Object", {"SUPER", WeakReferenceFlag}, <<>>, <<>>, <<>>, 0,
                   <<>>, 4)
        [] c = "Main" ->
             Class("java/lang/Object", {"SUPER"}, <<>>,
                   \* the methods of Main come first in MethodTable
                   [ i \in 1 .. Cardinality({ m \in Methods : methods[m].class = "Main" })
                       |-> i ],
                   <<>>, 0, MainPool, 0)
        [] c = "K" ->
             Class("java/lang/Object", {"SUPER"},
                   << Field("K", "f", "I", 1, TRUE), Field("K", "g", "I", 1, FALSE) >>,
                   << MethodOf("K", "<clinit>"), MethodOf("K", "<init>"),
                      MethodOf("K", "sm"), MethodOf("K", "ssm"), MethodOf("K", "si"),
                      MethodOf("K", "sl"), MethodOf("K", "sa"), MethodOf("K", "st"),
                      MethodOf("K", "so") >>,
                   << MethodOf("K", "si"), MethodOf("K", "sa"), MethodOf("K", "st"),
                      MethodOf("K", "so") >>,
                   MethodOf("K", "<clinit>"),
                   << Reference("K", "f", "I") >>, 1)
        [] c = "Base" ->
             Class("java/lang/Object", {"SUPER"}, <<>>,
                   << MethodOf("Base", "<clinit>"), MethodOf("Base", "m") >>,
                   << MethodOf("Base", "m") >>,
                   MethodOf("Base", "<clinit>"), <<>>, 0)
        [] c = "Boot" ->
             Class("Base", {"SUPER"}, <<>>,
                   << MethodOf("Boot", "<clinit>"), MethodOf("Boot", "m"),
                      MethodOf("Boot", "<init>") >>,
                   << MethodOf("Boot", "m") >>,
                   MethodOf("Boot", "<clinit>"), <<>>, 0)
        [] c = "Sub" ->
             Class("Boot", {"SUPER"}, <<>>,
                   << MethodOf("Sub", "<init>"), MethodOf("Sub", "up") >>,
                   << MethodOf("Boot", "m"), MethodOf("Sub", "up") >>, 0, SubPool, 0)
        [] c = "Old" ->
             Class("Boot", {}, <<>>, << MethodOf("Old", "up") >>,
                   << MethodOf("Boot", "m"), MethodOf("Old", "up") >>, 0, SubPool, 0)
        [] c = "Runner" ->
             Class("java/lang/Object", {"INTERFACE"}, <<>>,
                   << MethodOf("Runner", "go") >>, <<>>, 0, <<>>, 0)
        [] c = "Impl" ->
             [Class("java/lang/Object", {"SUPER"}, <<>>,
                    << MethodOf("Impl", "go") >>, << MethodOf("Impl", "go") >>, 0, <<>>, 0)
                EXCEPT !.interfaceTable =
                         << [interface |-> "Runner", methods |-> << MethodOf("Impl", "go") >>] >>]
        [] c = "Heir" -> Plain("Impl")
        [] OTHER -> Exception(Throwable) ]

\* The state the operators below transform.  k is where control goes next
\* ("loop", "invoke", "throw", "return", "native", "undefined"), r the value
\* the last call returned.
Cur ==
  [stack |-> stack, sp |-> sp, frame |-> frame, ip |-> ip, code |-> code,
   exception |-> exception, state |-> state, pool |-> pool,
   initializer |-> initializer, virtualTable |-> virtualTable,
   nativeCode |-> nativeCode, heap |-> heap, statics |-> statics,
   monitors |-> monitors, weakReferences |-> weakReferences, stderr |-> stderr, obs |-> obs, k |-> "loop", r |-> 0]

Commit(s) ==
  /\ stack' = s.stack
  /\ sp' = s.sp
  /\ frame' = s.frame
  /\ ip' = s.ip
  /\ code' = s.code
  /\ exception' = s.exception
  /\ state' = s.state
  /\ pool' = s.pool
  /\ initializer' = s.initializer
  /\ virtualTable' = s.virtualTable
  /\ nativeCode' = s.nativeCode
  /\ heap' = s.heap
  /\ statics' = s.statics
  /\ monitors' = s.monitors
  /\ weakReferences' = s.weakReferences
  /\ stderr' = s.stderr
  /\ obs' = [s.obs EXCEPT !.result = IF s.k = "return" THEN s.r ELSE @]

Goto(s, k) == [s EXCEPT !.k = k]
Return(s, r) == [s EXCEPT !.r = r]

----------------------------------------------------------------------------
(* Operand stack and locals (machine.h).                                   *)

IntSlot(v) == [v |-> v, tag |-> 0]
ObjectSlot(o) == [v |-> o, tag |-> 1]

peekInt(s, i) == s.stack[i].v
peekObject(s, i) == s.stack[i].v
peekLong(s, i) == Long(s.stack[i].v, s.stack[i + 1].v)

pokeInt(s, i, v) ==
  IF i \in StackDomain THEN [s EXCEPT !.stack[i] = IntSlot(v)] ELSE s
pokeObject(s, i, o) ==
  IF i \in StackDomain THEN [s EXCEPT !.stack[i] = ObjectSlot(o)] ELSE s
pokeLong(s, i, v) ==
  pokeInt(pokeInt(s, i, v.hi), i + 1, v.lo)

pushInt(s, v) == [pokeInt(s, s.sp, v) EXCEPT !.sp = s.sp + 1]
pushObject(s, o) == [pokeObject(s, s.sp, o) EXCEPT !.sp = s.sp + 1]
pushLong(s, v) == [pokeLong(s, s.sp, v) EXCEPT !.sp = s.sp + 2]

\* pop*: the value is top*(s), the state after it is drop(s, n).
topInt(s) == peekInt(s, s.sp - 1)
topObject(s) == peekObject(s, s.sp - 1)
topLong(s) == peekLong(s, s.sp - 2)
drop(s, n) == [s EXCEPT !.sp = s.sp - n]

frameIp(s, f) == peekInt(s, f + FrameIpOffset)
frameBase(s, f) == peekInt(s, f + FrameBaseOffset)
frameNext(s, f) == peekInt(s, f + FrameNextOffset)
frameMethod(s, f) == peekObject(s, f + FrameMethodOffset)

localInt(s, i) == peekInt(s, frameBase(s, s.frame) + i)
localObject(s, i) == peekObject(s, frameBase(s, s.frame) + i)
setLocalInt(s, i, v) == pokeInt(s, frameBase(s, s.frame) + i, v)
setLocalObject(s, i, o) == pokeObject(s, frameBase(s, s.frame) + i, o)
setLocalLong(s, i, v) == pokeLong(s, frameBase(s, s.frame) + i, v)

\* codeBody(t, code, i): byte i of the code of method m.
codeBody(m, i) == methods[m].body[i + 1]

methodFlags(m) == methods[m].flags
methodClass(m) == methods[m].class
objectClass(s, o) == s.heap[o].class
classSuper(c) == classes[c].super

----------------------------------------------------------------------------
(* Heap and monitors.                                                      *)

\* allocate + initialise: a new object of class c, zero-filled; its handle is r.
allocate(s, c) ==
  LET o == [class |-> c,
            fields |-> [i \in 1 .. classes[c].fixedSize |-> 0]]
  IN [s EXCEPT !.heap = Append(s.heap, o), !.r = Len(s.heap) + 1]

\* make<Kind>Array(t, count, true): count zero elements.
makeArray(s, class, count) ==
  LET o == [class |-> class,
            fields |-> [i \in 1 .. count |-> IF class = "[J" THEN Long(0, 0) ELSE 0]]
  IN [s EXCEPT !.heap = Append(s.heap, o), !.r = Len(s.heap) + 1]

\* makeInt(t, v) and makeLong(t, v): a box of class Int or Long holding v.
makeInt(s, v) ==
  LET filled(a) == [a EXCEPT !.heap[a.r].fields = << v >>] IN filled(allocate(s, "Int"))
makeLong(s, v) ==
  LET filled(a) == [a EXCEPT !.heap[a.r].fields = << v >>] IN filled(allocate(s, "Long"))

\* make<c>(t, message) of machine.cpp, with a cause: a throwable whose trace
\* is taken where it is made.  The message is a string, "" when there is
\* none; the trace is its innermost element, the method of the current frame
\* (0 when there is no frame).
makeThrowable(s, c, message, cause) ==
  LET trace == IF s.frame >= 0 THEN s.stack[s.frame + FrameMethodOffset].v ELSE 0
      filled(a) == [a EXCEPT !.heap[a.r].fields = << message, trace, cause >>]
  IN filled(allocate(s, c))

\* t->exception = make<c>(t, message)
raiseWith(s, c, message) ==
  LET pending(a) == [a EXCEPT !.exception = a.r]
  IN pending(makeThrowable(s, c, message, 0))

\* t->exception = make<c>(t)
raise(s, c) == raiseWith(s, c, "")

acquireObject(s, o) == [s EXCEPT !.monitors.object[o] = @ + 1]
releaseObject(s, o) == [s EXCEPT !.monitors.object[o] = @ - 1]
acquireClass(s, c) == [s EXCEPT !.monitors.class[c] = @ + 1]
releaseClass(s, c) == [s EXCEPT !.monitors.class[c] = @ - 1]

----------------------------------------------------------------------------
(* Frame manager.                                                          *)

\* memset of the locals that are not parameters
zeroLocals(s, from, to) ==
  [s EXCEPT !.stack = [i \in StackDomain |->
                         IF from <= i /\ i < to THEN [v |-> 0, tag |-> 0]
                         ELSE s.stack[i]]]

\* History: the frames pushed and not popped, those an unwinding dropped
\* being forgotten.  pushFrame took the thread from b to a.
notePush(b, a, parameterFootprint) ==
  LET live == SelectSeq(b.obs.frames, LAMBDA e : e.frame <= b.frame)
      new == [frame |-> a.frame, next |-> frameNext(a, a.frame),
              code |-> IF b.frame >= 0 THEN frameMethod(b, b.frame) ELSE 0,
              ip |-> b.ip, sp |-> b.sp, parameterFootprint |-> parameterFootprint,
              method |-> frameMethod(a, a.frame),
              acquired |-> { o \in DOMAIN a.monitors.object :
                               a.monitors.object[o] > b.monitors.object[o] }]
  IN [a EXCEPT !.obs.frames = Append(live, new)]

\* History: popFrame took the thread from b to a.
notePop(b, a) ==
  LET live == SelectSeq(b.obs.frames, LAMBDA e : e.frame <= b.frame)
  IN IF live = <<>> THEN a
     ELSE [a EXCEPT !.obs.frames = SubSeq(live, 1, Len(live) - 1),
                    !.obs.pop = [n |-> @.n + 1, popped |-> b.frame,
                                 entry |-> live[Len(live)],
                                 released |-> { o \in DOMAIN a.monitors.object :
                                                  a.monitors.object[o] < b.monitors.object[o] },
                                 after |-> [frame |-> a.frame, code |-> a.code,
                                            ip |-> a.ip, sp |-> a.sp]]]

\* pushFrame without "pokeInt(t, t->frame + FrameIpOffset, t->ip)".
pushFrameWithoutSavingIp(s, method) ==
  LET parameterFootprint == methods[method].parameterFootprint
      base == s.sp - parameterFootprint
      native == "NATIVE" \in methodFlags(method)
      locals == IF native THEN parameterFootprint ELSE methods[method].maxLocals
      newFrame == base + locals
      clear(s1) == IF native THEN s1
                   ELSE zeroLocals([s1 EXCEPT !.code = method],
                                   base + parameterFootprint, base + locals)
      link(s2) == [pokeInt(s2, newFrame + FrameNextOffset, s.frame)
                     EXCEPT !.frame = newFrame, !.sp = newFrame + FrameFootprint, !.ip = 0]
      fill(s4) == pokeInt(pokeObject(pokeInt(s4, newFrame + FrameBaseOffset, base),
                                     newFrame + FrameMethodOffset, method),
                          newFrame + FrameIpOffset, 0)
      lock(s5) == IF "SYNCHRONIZED" \in methodFlags(method)
                  THEN IF "STATIC" \in methodFlags(method)
                       THEN acquireClass(s5, methodClass(method))
                       ELSE acquireObject(s5, peekObject(s5, base))
                  ELSE s5
  IN notePush(s, lock(fill(link(clear(s)))), parameterFootprint)

pushFrame(s, method) ==
  LET parameterFootprint == methods[method].parameterFootprint
      base == s.sp - parameterFootprint
      native == "NATIVE" \in methodFlags(method)
      locals == IF native THEN parameterFootprint ELSE methods[method].maxLocals
      newFrame == base + locals
      saveIp(s0) == IF s.frame >= 0 THEN pokeInt(s0, s.frame + FrameIpOffset, s.ip) ELSE s0
      clear(s1) == IF native THEN s1
                   ELSE zeroLocals([s1 EXCEPT !.code = method],
                                   base + parameterFootprint, base + locals)
      link(s2) == [pokeInt(s2, newFrame + FrameNextOffset, s.frame)
                     EXCEPT !.frame = newFrame, !.sp = newFrame + FrameFootprint, !.ip = 0]
      fill(s4) == pokeInt(pokeObject(pokeInt(s4, newFrame + FrameBaseOffset, base),
                                     newFrame + FrameMethodOffset, method),
                          newFrame + FrameIpOffset, 0)
      lock(s5) == IF "SYNCHRONIZED" \in methodFlags(method)
                  THEN IF "STATIC" \in methodFlags(method)
                       THEN acquireClass(s5, methodClass(method))
                       ELSE acquireObject(s5, peekObject(s5, base))
                  ELSE s5
  IN notePush(s, lock(fill(link(clear(saveIp(s))))), parameterFootprint)

\* popFrame without "t->sp = frameBase(t, t->frame)".
popFrameKeepingSp(s) ==
  LET next == frameNext(s, s.frame)
  IN IF next >= 0
     THEN [s EXCEPT !.sp = s.frame, !.frame = next,
                    !.code = frameMethod(s, next), !.ip = frameIp(s, next)]
     ELSE [s EXCEPT !.sp = s.frame, !.frame = next, !.code = 0, !.ip = 0]

popFrame(s) ==
  LET method == frameMethod(s, s.frame)
      next == frameNext(s, s.frame)
      unlock(s0) == IF "SYNCHRONIZED" \in methodFlags(method)
                    THEN IF "STATIC" \in methodFlags(method)
                         THEN releaseClass(s0, methodClass(method))
                         ELSE releaseObject(s0, peekObject(s0, frameBase(s0, s0.frame)))
                    ELSE s0
      unlink(s1) == IF next >= 0
                    THEN [s1 EXCEPT !.sp = frameBase(s, s.frame), !.frame = next,
                                    !.code = frameMethod(s, next), !.ip = frameIp(s, next)]
                    ELSE [s1 EXCEPT !.sp = frameBase(s, s.frame), !.frame = next,
                                    !.code = 0, !.ip = 0]
  IN notePop(s, unlink(unlock(s)))

\* What the thread's registers are in s.
Registers(s) ==
  [frame |-> s.frame, sp |-> s.sp, ip |-> s.ip, state |-> s.state, stack |-> s.stack]

\* History: checkStack, and pushFrame if it raised nothing, took the thread
\* from b to a for a call of method.
noteInvoke(b, a, method) ==
  [a EXCEPT !.obs.invoke = [method |-> method, n |-> @.n + 1, exception |-> a.exception,
                            before |-> Registers(b), after |-> Registers(a)]]

\* checkStack without FrameFootprint in the sum.
checkStackWithoutFrameFootprint(s, method) ==
  LET base == s.sp - methods[method].parameterFootprint
  IN IF base + methods[method].maxLocals + methods[method].maxStack > StackSlots
     THEN raise(s, StackOverflowError)
     ELSE s

checkStack(s, method) ==
  LET base == s.sp - methods[method].parameterFootprint
  IN IF base + methods[method].maxLocals + FrameFootprint
          + methods[method].maxStack > StackSlots
     THEN raise(s, StackOverflowError)
     ELSE s

----------------------------------------------------------------------------
(* Constant-pool resolver.                                                 *)

\* The pool slots of every class, as <<class, index>>.
Slots ==
  { <<"Main", i>> : i \in 1 .. Len(MainPool) } \cup { <<"K", 1>> }
  \cup { <<c, i>> : c \in {"Sub", "Old"}, i \in 1 .. Len(SubPool) }

Resolved(e) == e.tag \in {"Class", "Field", "Method"}

\* History: a lookup (class finder or table search) made for slot k.
noteWork(s, k) == [s EXCEPT !.obs.work[k] = @ + 1]

\* History: a resolution of slot k returned entry e with no exception pending.
noteResult(s, k, e) ==
  IF s.exception # 0 \/ ~Resolved(e) THEN s
  ELSE IF s.obs.first[k].done
       THEN [s EXCEPT !.obs.first[k].same = @ /\ e = s.obs.first[k].entry,
                      !.obs.first[k].again = TRUE]
       ELSE [s EXCEPT !.obs.first[k] =
                        [done |-> TRUE, entry |-> e, work |-> s.obs.work[k],
                         same |-> TRUE, again |-> FALSE]]

\* resolveClass(t, spec) of machine.cpp: the class finder.  A class found is
\* loaded (it has a virtual table from then on); a class not found leaves
\* ClassNotFoundException pending and null returned.
resolveClassSpec(s, name) ==
  IF name \in classPath
  THEN Return([s EXCEPT !.virtualTable[name] = TRUE], name)
  ELSE Return(raise(s, ClassNotFoundException), "")

\* resolveClass(t, pool, index); the pool is that of class c.
resolveClass(s, c, index) ==
  LET o == s.pool[c][index]
      e == [o EXCEPT !.tag = "Class"]
      found(s1) == IF s1.exception # 0 THEN Return(s1, NullEntry)
                   ELSE noteResult(Return([s1 EXCEPT !.pool[c][index] = e], e),
                                   <<c, index>>, e)
  IN IF o.tag = "Null" THEN Goto(s, "undefined")
     ELSE IF o.tag = "ByteArray"
     THEN found(resolveClassSpec(noteWork(s, <<c, index>>), o.class))
     ELSE noteResult(Return(s, o), <<c, index>>, o)

\* resolveClass(t, container, referenceClass) on the Reference in slot index.
resolveReferenceClass(s, c, index) ==
  LET o == s.pool[c][index]
      found(s1) == IF s1.exception # 0 THEN Return(s1, "")
                   ELSE Return([s1 EXCEPT !.pool[c][index].rc = TRUE], o.class)
  IN IF ~o.rc
     THEN found(resolveClassSpec(noteWork(s, <<c, index>>), o.class))
     ELSE Return(s, o.class)

\* find(t, table, reference, name, spec): the index of the first member with
\* the name and the spec of the reference, 0 when there is none.  names[i]
\* is << name, spec >> of member i.
find(names, reference) ==
  LET hits == { i \in 1 .. Len(names) : names[i] = << reference.name, reference.spec >> }
  IN IF hits = {} THEN 0 ELSE CHOOSE i \in hits : \A j \in hits : i <= j

findFieldInClass(c, reference) ==
  LET table == classes[c].fieldTable
      i == find([j \in 1 .. Len(table) |-> << table[j].name, table[j].spec >>], reference)
  IN IF i = 0 THEN NullEntry
     ELSE [tag |-> "Field", class |-> c, name |-> reference.name,
           spec |-> reference.spec, rc |-> FALSE]

findMethodInClass(c, reference) ==
  LET table == classes[c].methodTable
      i == find([j \in 1 .. Len(table) |->
                   << methods[table[j]].name, methods[table[j]].spec >>], reference)
  IN IF i = 0 THEN NullEntry
     ELSE [tag |-> "Method", class |-> c, name |-> reference.name,
           spec |-> reference.spec, rc |-> FALSE]

\* for (o = 0; o == 0 and class_; class_ = classSuper(t, class_)) o = find(...)
RECURSIVE findInChain(_, _, _)
findInChain(c, reference, kind) ==
  IF c = "" THEN NullEntry
  ELSE LET o == IF kind = "Field" THEN findFieldInClass(c, reference)
                ELSE findMethodInClass(c, reference)
       IN IF o # NullEntry THEN o ELSE findInChain(classSuper(c), reference, kind)

\* A resolve that returns what it found without storing it in the slot: the
\* fault C6 guards against.
resolveWithoutStore(s, c, index, kind) ==
  LET o == s.pool[c][index]
      error == IF kind = "Field" THEN NoSuchFieldError ELSE NoSuchMethodError
      result(s3, found) == noteResult(Return(s3, found), <<c, index>>, found)
      search(s1) ==
        IF s1.exception # 0 THEN Return(s1, NullEntry)
        ELSE IF findInChain(s1.r, o, kind) = NullEntry
        THEN result(raise(noteWork(s1, <<c, index>>), error), NullEntry)
        ELSE result(noteWork(s1, <<c, index>>), findInChain(s1.r, o, kind))
  IN IF o.tag = "Null" THEN Goto(s, "undefined")
     ELSE IF o.tag = "Reference" THEN search(resolveReferenceClass(s, c, index))
     ELSE noteResult(Return(s, o), <<c, index>>, o)

\* resolve(t, pool, index, find, makeError); kind is "Field" or "Method".
resolve(s, c, index, kind) ==
  LET o == s.pool[c][index]
      error == IF kind = "Field" THEN NoSuchFieldError ELSE NoSuchMethodError
      store(s3, found) ==
        noteResult(Return([s3 EXCEPT !.pool[c][index] = found], found),
                   <<c, index>>, found)
      search(s1) ==
        IF s1.exception # 0 THEN Return(s1, NullEntry)
        ELSE IF findInChain(s1.r, o, kind) = NullEntry
        THEN store(raiseWith(noteWork(s1, <<c, index>>), error,
                             o.name \o " " \o o.spec \o " not found in " \o o.class),
                   NullEntry)
        ELSE store(noteWork(s1, <<c, index>>), findInChain(s1.r, o, kind))
  IN IF o.tag = "Null" THEN Goto(s, "undefined")
     ELSE IF o.tag = "Reference" THEN search(resolveReferenceClass(s, c, index))
     ELSE noteResult(Return(s, o), <<c, index>>, o)

resolveField(s, c, index) == resolve(s, c, index, "Field")
resolveMethod(s, c, index) == resolve(s, c, index, "Method")

\* The field a resolved entry stands for.
fieldOf(e) ==
  LET t == classes[e.class].fieldTable
  IN t[CHOOSE i \in 1 .. Len(t) : t[i].name = e.name /\ t[i].spec = e.spec]

\* The method a resolved entry stands for.
methodOf(e) ==
  CHOOSE m \in DOMAIN methods :
    /\ methods[m].class = e.class
    /\ methods[m].name = e.name
    /\ methods[m].spec = e.spec

----------------------------------------------------------------------------
(* Type test and dispatch helpers.                                         *)

RECURSIVE implements(_, _)
implements(oc, class) ==
  IF oc = "" THEN FALSE
  ELSE LET itable == classes[oc].interfaceTable
       IN \/ \E i \in 1 .. Len(itable) : itable[i].interface = class
          \/ implements(classSuper(oc), class)

RECURSIVE extends(_, _)
extends(oc, class) ==
  IF oc = "" THEN FALSE
  ELSE oc = class \/ extends(classSuper(oc), class)

instanceOf(s, class, o) ==
  IF o = 0 THEN FALSE
  ELSE IF "INTERFACE" \in classes[class].flags
       THEN implements(objectClass(s, o), class)
       ELSE extends(objectClass(s, o), class)

\* The first pair of the interface table of o's own class that names the
\* interface of method gives the array to index; with no such pair, abort(t).
findInterfaceMethod(s, method, o) ==
  LET interface == methodClass(method)
      itable == classes[objectClass(s, o)].interfaceTable
      listed == { i \in 1 .. Len(itable) : itable[i].interface = interface }
  IN IF listed = {} THEN Goto(s, "abort")
     ELSE Return(s, itable[CHOOSE i \in listed : \A j \in listed : i <= j]
                      .methods[methods[method].offset + 1])

findMethod(method, class) ==
  classes[class].virtualTable[methods[method].offset + 1]

isSuperclass(class, base) == extends(classSuper(base), class)

\* isSpecialMethod without the test of the name.
isSpecialMethodWhateverName(method, class) ==
  /\ "SUPER" \in classes[class].flags
  /\ isSuperclass(methodClass(method), class)

isSpecialMethod(method, class) ==
  /\ "SUPER" \in classes[class].flags
  /\ methods[method].name # "<init>"
  /\ isSuperclass(methodClass(method), class)

----------------------------------------------------------------------------
(* Instruction handlers of the dispatch loop.  Each takes the state after  *)
(* the opcode byte was fetched, ip past it, and leaves in k where control  *)
(* goes next.                                                              *)

\* (index1 << 8) | index2, read at ip
index(s) == codeBody(s.code, s.ip) * TwoTo8 + codeBody(s.code, s.ip + 1)

\* codePool(t, code): the pool of the class of the running method
codePool(s) == methodClass(s.code)

fieldCode(f) ==
  CASE f.spec = "I" -> "IntField"
    [] f.spec = "J" -> "LongField"
    [] OTHER -> "ObjectField"

\* registerWeakReference(t, r): r's next link is set to the head of the
\* chain and r becomes the head.  An instance of fewer than four words has no
\* such word: the store is outside it.
registerWeakReferenceUnlinked(s, r) == [s EXCEPT !.weakReferences = r]
registerWeakReference(s, r) ==
  IF Len(s.heap[r].fields) < JreferenceNext THEN Goto(s, "undefined")
  ELSE [s EXCEPT !.heap[r].fields[JreferenceNext] = s.weakReferences,
                 !.weakReferences = r]

\* make(t, class_)
make(s, class) ==
  LET registered(a) == IF WeakReferenceFlag \in classes[class].flags
                       THEN registerWeakReference(a, a.r)
                       ELSE a
  IN registered(allocate(s, class))

\* set(t, classInitializer(t, c), 0); code = clinit; ip -= 3; goto invoke
initialize(s, c, clinit) ==
  Goto([s EXCEPT !.initializer[c] = 0, !.code = clinit, !.ip = s.ip - 3], "invoke")

aconst_null(s) == pushObject(s, 0)
iconst(s, v) == pushInt(s, v)
lconst(s, v) == pushLong(s, Long(0, v))
iload(s, i) == pushInt(s, localInt(s, i))

\* "pushInt(t, codeBody(t, code, ip++))": the byte of the code, which is
\* unsigned (the opcodes above 127 are read through the same accessor), is
\* widened as it is.
bipush(s) == pushInt([s EXCEPT !.ip = s.ip + 1], codeBody(s.code, s.ip))

\* "pushInt(t, (byte1 << 8) | byte2)", byte1 and byte2 being uint8_t.
sipush(s) == pushInt([s EXCEPT !.ip = s.ip + 2], index(s))
aload(s, i) == pushObject(s, localObject(s, i))
astore(s, i) == setLocalObject(drop(s, 1), i, topObject(s))
lload(s, i) == pushLong(s, peekLong(s, frameBase(s, s.frame) + i))
lstore(s, i) == setLocalLong(drop(s, 2), i, topLong(s))
pop_(s) == drop(s, 1)
pop2(s) == drop(s, 2)
dup(s) == [s EXCEPT !.stack[s.sp] = s.stack[s.sp - 1], !.sp = s.sp + 1]

\* memcpy of n slots (both words of each) from slot "from" to slot "to"; a
\* copy that leaves the stack array has no defined outcome.
memcpy(s, to, from, n) ==
  IF {to, to + n - 1, from, from + n - 1} \subseteq StackDomain
  THEN [s EXCEPT !.stack = [i \in StackDomain |->
                             IF i \in to .. (to + n - 1)
                             THEN s.stack[from + (i - to)] ELSE s.stack[i]]]
  ELSE Goto(s, "undefined")

dup_x1(s) ==
  LET m1 == memcpy(s, s.sp, s.sp - 1, 1)
      m2 == memcpy(m1, s.sp - 1, s.sp - 2, 1)
      m3 == memcpy(m2, s.sp - 2, s.sp, 1)
  IN [m3 EXCEPT !.sp = s.sp + 1]

dup_x2(s) ==
  LET m1 == memcpy(s, s.sp, s.sp - 1, 1)
      m2 == memcpy(m1, s.sp - 1, s.sp - 2, 1)
      m3 == memcpy(m2, s.sp - 2, s.sp - 3, 1)
      m4 == memcpy(m3, s.sp - 3, s.sp, 1)
  IN [m4 EXCEPT !.sp = s.sp + 1]

\* The two top slots are copied to sp + 1 and sp + 2; slot sp is not written.
dup2(s) ==
  LET m1 == memcpy(s, s.sp + 1, s.sp - 2, 2)
  IN [m1 EXCEPT !.sp = s.sp + 2]

dup2_x1(s) ==
  LET m1 == memcpy(s, s.sp + 1, s.sp - 1, 1)
      m2 == memcpy(m1, s.sp, s.sp - 2, 1)
      m3 == memcpy(m2, s.sp - 1, s.sp - 3, 1)
      m4 == memcpy(m3, s.sp - 3, s.sp, 2)
  IN [m4 EXCEPT !.sp = s.sp + 2]

dup2_x2(s) ==
  LET m1 == memcpy(s, s.sp + 1, s.sp - 1, 1)
      m2 == memcpy(m1, s.sp, s.sp - 2, 1)
      m3 == memcpy(m2, s.sp - 1, s.sp - 3, 1)
      m4 == memcpy(m3, s.sp - 2, s.sp - 4, 1)
      m5 == memcpy(m4, s.sp - 4, s.sp, 2)
  IN [m5 EXCEPT !.sp = s.sp + 2]

\* swap with the tag words left where they were.
swapValues(s) ==
  [s EXCEPT !.stack[s.sp - 1].v = s.stack[s.sp - 2].v,
            !.stack[s.sp - 2].v = s.stack[s.sp - 1].v]

\* The three memcpy of swap: both words of the two top slots change places.
swap(s) ==
  [s EXCEPT !.stack[s.sp - 1] = s.stack[s.sp - 2],
            !.stack[s.sp - 2] = s.stack[s.sp - 1]]

\* "static_cast<int16_t>((offset1 << 8) | offset2)" and "static_cast<int32_t>
\* ((offset1 << 24) | (offset2 << 16) | (offset3 << 8) | offset4)", read at ip.
offset16(s) == IF index(s) >= 32768 THEN index(s) - 65536 ELSE index(s)
offset32(s) ==
  LET offset1 == codeBody(s.code, s.ip)
      high == IF offset1 >= 128 THEN offset1 - 256 ELSE offset1
  IN high * 16777216 + codeBody(s.code, s.ip + 1) * 65536
     + codeBody(s.code, s.ip + 2) * TwoTo8 + codeBody(s.code, s.ip + 3)

\* The two offset bytes are read, then "if (taken) ip = (ip - 3) + offset".
branch(s, taken) ==
  LET read == [s EXCEPT !.ip = s.ip + 2]
  IN IF taken THEN [read EXCEPT !.ip = (read.ip - 3) + offset16(s)] ELSE read

\* a relation b, for the relation an opcode's name ends with
compare(relation, a, b) ==
  CASE relation = "eq" -> a = b
    [] relation = "ne" -> a # b
    [] relation = "gt" -> a > b
    [] relation = "ge" -> a >= b
    [] relation = "lt" -> a < b
    [] relation = "le" -> a <= b

\* ifeq .. ifle: popInt(t) relation 0
if_(s, relation) == branch(drop(s, 1), compare(relation, topInt(s), 0))
\* if_icmpeq .. if_icmple: b and a are popped, a relation b
if_icmp(s, relation) ==
  branch(drop(s, 2), compare(relation, peekInt(s, s.sp - 2), topInt(s)))
\* if_acmpeq, if_acmpne
if_acmp(s, relation) ==
  branch(drop(s, 2), compare(relation, peekObject(s, s.sp - 2), topObject(s)))
ifnull(s) == branch(drop(s, 1), topObject(s) = 0)
ifnonnull(s) == branch(drop(s, 1), topObject(s) # 0)

goto_(s) == branch(s, TRUE)
goto_w(s) ==
  LET read == [s EXCEPT !.ip = s.ip + 4]
  IN [read EXCEPT !.ip = (read.ip - 5) + offset32(s)]

\* "pushInt(t, ip)" after the offset bytes are read, then the branch; jsr_w
\* computes its target as "(ip - 3) + offset" after reading four bytes.
jsr(s) == [pushInt(branch(s, TRUE), s.ip + 2) EXCEPT !.ip = branch(s, TRUE).ip]
jsr_w(s) ==
  LET read == [s EXCEPT !.ip = s.ip + 4]
  IN [pushInt(read, read.ip) EXCEPT !.ip = (read.ip - 3) + offset32(s)]

\* "uint8_t index = ...; int8_t c = ...; setLocalInt(t, index,
\* localInt(t, index) + c)": the second byte is taken as signed.
iinc(s) ==
  LET position == codeBody(s.code, s.ip)
      c == codeBody(s.code, s.ip + 1)
      count == IF c >= 128 THEN c - 256 ELSE c
  IN setLocalInt([s EXCEPT !.ip = s.ip + 2], position, add32(localInt(s, position), count))

\* The switch under the label wide: the opcode after the prefix is read, then
\* a two-byte index; iinc reads a two-byte count into a uint16_t and adds it
\* as it is.  Any other opcode aborts.
wide_(s) ==
  LET instruction == codeBody(s.code, s.ip)
      s1 == [s EXCEPT !.ip = s.ip + 1]
      position == index(s1)
      s2 == [s1 EXCEPT !.ip = s1.ip + 2]
  IN CASE instruction = Op.aload -> pushObject(s2, localObject(s2, position))
       [] instruction = Op.astore -> setLocalObject(drop(s2, 1), position, topObject(s2))
       [] instruction = Op.iinc ->
            setLocalInt([s2 EXCEPT !.ip = s2.ip + 2], position,
                        add32(localInt(s2, position), index(s2)))
       [] instruction = Op.iload -> pushInt(s2, localInt(s2, position))
       [] instruction = Op.istore -> setLocalInt(drop(s2, 1), position, topInt(s2))
       [] instruction = Op.lload ->
            pushLong(s2, peekLong(s2, frameBase(s2, s2.frame) + position))
       [] instruction = Op.lstore -> setLocalLong(drop(s2, 2), position, topLong(s2))
       [] instruction = Op.ret -> [s2 EXCEPT !.ip = localInt(s2, position)]
       [] OTHER -> Goto(s1, "undefined")

\* What an element of the kind holds of v: "int8_t value = popInt(t)" and
\* its like in the store handlers.
truncate(kind, v) ==
  CASE kind = "byte" -> (((v % 256) + 128) % 256) - 128
    [] kind = "char" -> v % 65536
    [] kind = "short" -> (((v % 65536) + 32768) % 65536) - 32768
    [] OTHER -> v

\* baload, caload, saload, iaload, laload, aaload
arrayLoad(s, kind) ==
  LET position == topInt(s)
      array == peekObject(s, s.sp - 2)
      popped == drop(s, 2)
      length == Len(s.heap[array].fields)
      element == s.heap[array].fields[position + 1]
  IN IF array # 0
     THEN IF position >= 0 /\ position < length
          THEN CASE kind = "long" -> pushLong(popped, element)
                 [] kind = "object" -> pushObject(popped, element)
                 [] OTHER -> pushInt(popped, element)
          ELSE Goto(raiseWith(popped, ArrayIndexOutOfBoundsException,
                              ToString(position) \o " not in [0," \o ToString(length) \o "]"),
                    "throw")
     ELSE Goto(raise(popped, NullPointerException), "throw")

\* arrayStore storing the int popped, whatever the element's width.
arrayStoreUntruncated(s, kind) ==
  LET size == IF kind = "long" THEN 2 ELSE 1
      value == IF kind = "long" THEN topLong(s) ELSE topInt(s)
      position == peekInt(s, s.sp - size - 1)
      array == peekObject(s, s.sp - size - 2)
      popped == drop(s, size + 2)
      length == Len(s.heap[array].fields)
  IN IF array # 0
     THEN IF position >= 0 /\ position < length
          THEN [popped EXCEPT !.heap[array].fields[position + 1] = value]
          ELSE Goto(raiseWith(popped, ArrayIndexOutOfBoundsException,
                              ToString(position) \o " not in [0," \o ToString(length) \o "]"),
                    "throw")
     ELSE Goto(raise(popped, NullPointerException), "throw")

\* bastore, castore, sastore, iastore, lastore, aastore
arrayStore(s, kind) ==
  LET size == IF kind = "long" THEN 2 ELSE 1
      value == IF kind = "long" THEN topLong(s) ELSE topInt(s)
      position == peekInt(s, s.sp - size - 1)
      array == peekObject(s, s.sp - size - 2)
      popped == drop(s, size + 2)
      length == Len(s.heap[array].fields)
  IN IF array # 0
     THEN IF position >= 0 /\ position < length
          THEN [popped EXCEPT !.heap[array].fields[position + 1] = truncate(kind, value)]
          ELSE Goto(raiseWith(popped, ArrayIndexOutOfBoundsException,
                              ToString(position) \o " not in [0," \o ToString(length) \o "]"),
                    "throw")
     ELSE Goto(raise(popped, NullPointerException), "throw")

iadd(s) ==
  LET b == topInt(s)
      a == peekInt(s, s.sp - 2)
  IN pushInt(drop(s, 2), add32(a, b))

\* a / b and a % b in int32_t, for b # 0 and (a, b) # (MinInt32, -1): the
\* quotient is truncated toward zero and the remainder has the sign of a.
quotient(a, b) ==
  LET floor(n) == IF a < 0 /\ a % n # 0 THEN (a \div n) + 1 ELSE a \div n
  IN IF b = MinInt32 THEN (IF a = MinInt32 THEN 1 ELSE 0)
     ELSE IF b < 0 THEN 0 - floor(0 - b)
     ELSE floor(b)
remainder(a, b) == a - quotient(a, b) * b

\* a / b and a % b in int64_t, for b # 0 and (a, b) # (MIN_VALUE, -1), of
\* operands that are ints widened, or with b = 1.
wide(v) == Long(IF v < 0 THEN -1 ELSE 0, v)
quotient64(a, b) ==
  IF b = Long(0, 1) THEN a
  ELSE IF a.lo = MinInt32 /\ b.lo = -1 THEN Long(0, MinInt32)
  ELSE wide(quotient(a.lo, b.lo))
remainder64(a, b) ==
  IF b = Long(0, 1) \/ (a.lo = MinInt32 /\ b.lo = -1) THEN Long(0, 0)
  ELSE wide(remainder(a.lo, b.lo))

\* "pushInt(t, a / b)" and "pushInt(t, a % b)": division by zero and the
\* overflow of MinInt32 / -1 are undefined behaviour.
idiv(s) ==
  LET b == topInt(s)
      a == peekInt(s, s.sp - 2)
  IN IF b = 0 \/ (a = MinInt32 /\ b = -1) THEN Goto(drop(s, 2), "undefined")
     ELSE pushInt(drop(s, 2), quotient(a, b))
irem(s) ==
  LET b == topInt(s)
      a == peekInt(s, s.sp - 2)
  IN IF b = 0 \/ (a = MinInt32 /\ b = -1) THEN Goto(drop(s, 2), "undefined")
     ELSE pushInt(drop(s, 2), remainder(a, b))

\* "pushLong(t, a / b)" and "pushLong(t, a % b)", likewise.
ldiv(s) ==
  LET b == topLong(s)
      a == peekLong(s, s.sp - 4)
  IN IF b = Long(0, 0) \/ (a = Long(MinInt32, 0) /\ b = Long(-1, -1))
     THEN Goto(drop(s, 4), "undefined")
     ELSE pushLong(drop(s, 4), quotient64(a, b))
lrem(s) ==
  LET b == topLong(s)
      a == peekLong(s, s.sp - 4)
  IN IF b = Long(0, 0) \/ (a = Long(MinInt32, 0) /\ b = Long(-1, -1))
     THEN Goto(drop(s, 4), "undefined")
     ELSE pushLong(drop(s, 4), remainder64(a, b))

\* "pushInt(t, static_cast<uint32_t>(a >> b))": a is an int32_t, so the
\* shift is the signed one, and the cast of its result changes no bit.  A
\* count outside 0..31 is undefined behaviour.
iushr(s) ==
  LET b == topInt(s)
      a == peekInt(s, s.sp - 2)
  IN IF b < 0 \/ b > 31 THEN Goto(drop(s, 2), "undefined")
     ELSE pushInt(drop(s, 2), sar32(a, b))

\* b and a are both popped as longs; a << b is defined for 0 <= b < 64 only.
lshl(s) ==
  LET b == topLong(s)
      a == peekLong(s, s.sp - 4)
  IN IF b.hi = 0 /\ 0 <= b.lo /\ b.lo < 64
     THEN pushLong(drop(s, 4), shl64(a, b.lo))
     ELSE Goto(s, "undefined")

\* As lshl, the places freed filled with the sign of a.
lshr(s) ==
  LET b == topLong(s)
      a == peekLong(s, s.sp - 4)
  IN IF b.hi = 0 /\ 0 <= b.lo /\ b.lo < 64
     THEN pushLong(drop(s, 4), shr64(a, b.lo, TRUE))
     ELSE Goto(s, "undefined")

\* As lshr on uint64_t: the places freed filled with zeros.
lushr(s) ==
  LET b == topLong(s)
      a == peekLong(s, s.sp - 4)
  IN IF b.hi = 0 /\ 0 <= b.lo /\ b.lo < 64
     THEN pushLong(drop(s, 4), shr64(a, b.lo, FALSE))
     ELSE Goto(s, "undefined")

\* One int is popped, negated in int32_t (no result for the least int) and
\* pushed widened to a long.
lneg(s) ==
  LET a == topInt(s)
  IN IF a = MinInt32 THEN Goto(s, "undefined")
     ELSE pushLong(drop(s, 1), Long(IF a > 0 THEN -1 ELSE 0, -a))

athrow(s) ==
  IF topObject(s) = 0
  THEN Goto(raise(drop(s, 1), NullPointerException), "throw")
  ELSE Goto([drop(s, 1) EXCEPT !.exception = topObject(s)], "throw")

\* popFrame reads the flags of frameMethod(t, t->frame): in a frame whose
\* method slot holds no method that is a read through a wild pointer.
return_(s) ==
  LET left(s1) == IF s1.frame >= 0 THEN s1 ELSE Goto(Return(s1, 0), "return")
  IN IF frameMethod(s, s.frame) \notin DOMAIN methods THEN Goto(s, "undefined")
     ELSE left(popFrame(s))

ireturn(s) ==
  LET result == topInt(s)
      boxed(s2) == Goto(s2, "return")
      left(s1) == IF s1.frame >= 0 THEN pushInt(s1, result)
                  ELSE boxed(makeInt(s1, result))
  IN left(popFrame(drop(s, 1)))

lreturn(s) ==
  LET result == topLong(s)
      boxed(s2) == Goto(s2, "return")
      left(s1) == IF s1.frame >= 0 THEN pushLong(s1, result)
                  ELSE boxed(makeLong(s1, result))
  IN left(popFrame(drop(s, 2)))

areturn(s) ==
  LET result == topObject(s)
      left(s1) == IF s1.frame >= 0 THEN pushObject(s1, result)
                  ELSE Goto(Return(s1, result), "return")
  IN left(popFrame(drop(s, 1)))

getfield(s) ==
  LET read(s1) ==
        LET field == fieldOf(s1.r)
            v == s1.heap[topObject(s1)].fields[field.offset]
        IN IF s1.k = "undefined" THEN s1
           ELSE IF s1.exception # 0 THEN Goto(s1, "throw")
           ELSE CASE fieldCode(field) = "IntField" -> pushInt(drop(s1, 1), v)
                  [] fieldCode(field) = "LongField" -> pushLong(drop(s1, 1), v)
                  [] OTHER -> pushObject(drop(s1, 1), v)
  IN IF topObject(s) # 0
     THEN read(resolveField([s EXCEPT !.ip = s.ip + 2], codePool(s), index(s)))
     ELSE Goto(raise(s, NullPointerException), "throw")

getstatic(s) ==
  LET read(s1) ==
        LET field == fieldOf(s1.r)
            clinit == s1.initializer[field.class]
            v == s1.statics[field.class][field.offset]
        IN IF s1.k = "undefined" THEN s1
           ELSE IF s1.exception # 0 THEN Goto(s1, "throw")
           ELSE IF clinit # 0 THEN initialize(s1, field.class, clinit)
           ELSE CASE fieldCode(field) = "IntField" -> pushInt(s1, v)
                  [] fieldCode(field) = "LongField" -> pushLong(s1, v)
                  [] OTHER -> pushObject(s1, v)
  IN read(resolveField([s EXCEPT !.ip = s.ip + 2], codePool(s), index(s)))

putstatic(s) ==
  LET write(s1) ==
        LET field == fieldOf(s1.r)
            clinit == s1.initializer[field.class]
            long == fieldCode(field) = "LongField"
            v == IF long THEN topLong(s1) ELSE s1.stack[s1.sp - 1].v
        IN IF s1.k = "undefined" THEN s1
           ELSE IF s1.exception # 0 THEN Goto(s1, "throw")
           ELSE IF clinit # 0 THEN initialize(s1, field.class, clinit)
           ELSE [drop(s1, IF long THEN 2 ELSE 1)
                   EXCEPT !.statics[field.class][field.offset] = v]
  IN write(resolveField([s EXCEPT !.ip = s.ip + 2], codePool(s), index(s)))

new_(s) ==
  LET made(s2) == IF s2.k = "undefined" THEN s2 ELSE pushObject(s2, s2.r)
      instantiate(s1) ==
        LET class == s1.r.class
            clinit == s1.initializer[class]
        IN IF s1.k = "undefined" THEN s1
           ELSE IF s1.exception # 0 THEN Goto(s1, "throw")
           ELSE IF clinit # 0 THEN initialize(s1, class, clinit)
           ELSE made(make(s1, class))
  IN instantiate(resolveClass([s EXCEPT !.ip = s.ip + 2], codePool(s), index(s)))

\* The reference is peeked, not popped: it stays under the int pushed.
instanceof(s) ==
  LET o == topObject(s)
      tested(s1) ==
        IF s1.k = "undefined" THEN s1
        ELSE IF s1.exception # 0 THEN Goto(s1, "throw")
        ELSE pushInt(s1, IF instanceOf(s1, s1.r.class, o) THEN 1 ELSE 0)
  IN IF o # 0
     THEN tested(resolveClass([s EXCEPT !.ip = s.ip + 2], codePool(s), index(s)))
     ELSE pushInt([s EXCEPT !.ip = s.ip + 2], 0)

checkcast(s) ==
  LET o == topObject(s)
      tested(s1) ==
        IF s1.k = "undefined" THEN s1
        ELSE IF s1.exception # 0 THEN Goto(s1, "throw")
        ELSE IF ~instanceOf(s1, s1.r.class, o)
        THEN Goto(raiseWith(s1, ClassCastException,
                            objectClass(s1, o) \o " as " \o s1.r.class), "throw")
        ELSE s1
  IN IF o # 0
     THEN tested(resolveClass([s EXCEPT !.ip = s.ip + 2], codePool(s), index(s)))
     ELSE [s EXCEPT !.ip = s.ip + 2]

invokestatic(s) ==
  LET call(s1) ==
        LET method == methodOf(s1.r)
            clinit == s1.initializer[methodClass(method)]
        IN IF s1.k = "undefined" THEN s1
           ELSE IF s1.exception # 0 THEN Goto(s1, "throw")
           ELSE IF clinit # 0 THEN initialize(s1, methodClass(method), clinit)
           ELSE Goto([s1 EXCEPT !.code = method], "invoke")
  IN call(resolveMethod([s EXCEPT !.ip = s.ip + 2], codePool(s), index(s)))

\* The part invokevirtual and invokespecial share once the class to
\* dispatch on is known: load it if it has no virtual table yet.
dispatchOn(s, method, class) ==
  LET loaded(s1) ==
        LET clinit == s1.initializer[class]
        IN IF s1.exception # 0 THEN Goto(s1, "throw")
           ELSE IF clinit # 0 THEN initialize(s1, methodClass(method), clinit)
           ELSE Goto([s1 EXCEPT !.code = findMethod(method, class)], "invoke")
  IN IF ~s.virtualTable[class]
     THEN loaded(resolveClassSpec(s, class))
     ELSE Goto([s EXCEPT !.code = findMethod(method, class)], "invoke")

invokevirtual(s) ==
  LET call(s1) ==
        LET method == methodOf(s1.r)
            receiver == peekObject(s1, s1.sp - methods[method].parameterFootprint)
        IN IF s1.k = "undefined" THEN s1
           ELSE IF s1.exception # 0 THEN Goto(s1, "throw")
           ELSE IF receiver # 0
           THEN dispatchOn(s1, method, objectClass(s1, receiver))
           ELSE Goto(raise(s1, NullPointerException), "throw")
  IN call(resolveMethod([s EXCEPT !.ip = s.ip + 2], codePool(s), index(s)))

invokeinterface(s) ==
  LET found(s2) == IF s2.k = "abort" THEN s2
                   ELSE IF s2.exception # 0 THEN Goto(s2, "throw")
                   ELSE Goto([s2 EXCEPT !.code = s2.r], "invoke")
      call(s1) ==
        LET method == methodOf(s1.r)
            receiver == peekObject(s1, s1.sp - methods[method].parameterFootprint)
        IN IF s1.k = "undefined" THEN s1
           ELSE IF s1.exception # 0 THEN Goto(s1, "throw")
           ELSE IF receiver # 0
           THEN found(findInterfaceMethod(s1, method, receiver))
           ELSE Goto(raise(s1, NullPointerException), "throw")
  IN call(resolveMethod([s EXCEPT !.ip = s.ip + 4], codePool(s), index(s)))

invokespecial(s) ==
  LET call(s1) ==
        LET method == methodOf(s1.r)
            receiver == peekObject(s1, s1.sp - methods[method].parameterFootprint)
            class == methodClass(frameMethod(s1, s1.frame))
        IN IF s1.k = "undefined" THEN s1
           ELSE IF s1.exception # 0 THEN Goto(s1, "throw")
           ELSE IF receiver # 0
           THEN IF isSpecialMethod(method, class)
                THEN dispatchOn(s1, method, classSuper(class))
                ELSE Goto([s1 EXCEPT !.code = method], "invoke")
           ELSE Goto(raise(s1, NullPointerException), "throw")
  IN call(resolveMethod([s EXCEPT !.ip = s.ip + 2], codePool(s), index(s)))

----------------------------------------------------------------------------
(* Native bridge.                                                          *)

NativeMethods == { m \in Methods : "NATIVE" \in methods[m].flags }

\* enter(t, state) of machine.cpp
enter(s, newState) == [s EXCEPT !.state = newState]

\* The return code of a method spec: the field code of what follows ')'.
methodReturnCode(m) ==
  CASE methods[m].spec \in {"()I", "(II)I"} -> "IntField"
    [] methods[m].spec = "()J" -> "LongField"
    [] methods[m].spec = "()Ljava/lang/Object;" -> "ObjectField"
    [] OTHER -> "VoidField"

\* methodCode of a native method before it is bound: the byte array of the
\* symbol's name.
Symbol(name) ==
  [bound |-> FALSE, symbol |-> name, function |-> 0, builtin |-> FALSE,
   length |-> 0, parameterTypes |-> <<>>, argumentTableSize |-> 0, returnCode |-> ""]

\* The characters of a method spec.
SpecChars(spec) ==
  CASE spec = "()I" -> << "(", ")", "I" >>
    [] spec = "([I)V" -> << "(", "[", "I", ")", "V" >>
    [] spec = "(IJLBoot;)V" -> << "(", "I", "J", "L", "B", "o", "o", "t", ";", ")", "V" >>
    [] spec = "([[LBoot;I)V" ->
         << "(", "[", "[", "L", "B", "o", "o", "t", ";", "I", ")", "V" >>

\* fieldCode(t, c) on a character, fieldType(t, code) and pad(primitiveSize(t, code)) of
\* machine.h.
fieldCodeOfChar(c) ==
  CASE c = "I" -> "IntField"
    [] c = "J" -> "LongField"
    [] c = "V" -> "VoidField"
    [] OTHER -> "ObjectField"
fieldType(fc) ==
  CASE fc = "IntField" -> "INT32_TYPE"
    [] fc = "LongField" -> "INT64_TYPE"
    [] fc = "VoidField" -> "VOID_TYPE"
    [] OTHER -> "POINTER_TYPE"
paddedSize(fc) == IF fc = "LongField" THEN 8 ELSE BytesPerWord

\* The loop of makeNativeMethodData over the characters of the spec from the
\* i-th on: data with one type stored and the size grown per turn; s is
\* where the loop stopped.
RECURSIVE parseParameters(_, _, _)
parseParameters(spec, i, data) ==
  LET typed == [data EXCEPT !.parameterTypes = Append(@, fieldType(fieldCodeOfChar(spec[i])))]
      grown(n) == [typed EXCEPT !.argumentTableSize = @ + n]
      pastSemicolon == 1 + CHOOSE j \in i .. Len(spec) :
                             spec[j] = ";" /\ \A k \in i .. j - 1 : spec[k] # ";"
      pastBrackets == CHOOSE j \in i .. Len(spec) :
                        spec[j] # "[" /\ \A k \in i .. j - 1 : spec[k] = "["
  IN IF i > Len(spec) \/ spec[i] = ")" THEN [data EXCEPT !.s = i]
     ELSE CASE spec[i] = "L" -> parseParameters(spec, pastSemicolon, grown(BytesPerWord))
            [] spec[i] = "[" -> parseParameters(spec, pastBrackets, grown(BytesPerWord))
            [] OTHER -> parseParameters(spec, i + 1, grown(paddedSize(fieldCodeOfChar(spec[i]))))

\* The native data: function is the library (1 .. NumLibraries, in chain
\* order) the pointer came from, or 0 for the builtin map's; length is the
\* length the array of parameter types was made with, parameterTypes what
\* was stored in it and past it.
makeNativeMethodData(s, method, function, builtin) ==
  LET spec == SpecChars(methods[method].spec)
      static == "STATIC" \in methodFlags(method)
      data == [bound |-> TRUE, symbol |-> s.nativeCode[method].symbol,
               function |-> function, builtin |-> builtin,
               length |-> methods[method].parameterCount + 1,
               parameterTypes |-> IF static THEN << "POINTER_TYPE" >>
                                  ELSE << "POINTER_TYPE", "POINTER_TYPE" >>,
               argumentTableSize |-> IF static THEN BytesPerWord ELSE 2 * BytesPerWord,
               returnCode |-> "", s |-> 0]
      done(d) == [bound |-> d.bound, symbol |-> d.symbol, function |-> d.function,
                  builtin |-> d.builtin, length |-> d.length,
                  parameterTypes |-> d.parameterTypes,
                  argumentTableSize |-> d.argumentTableSize,
                  returnCode |-> fieldCodeOfChar(spec[d.s + 1])]
  IN done(parseParameters(spec, 2, data))

\* "for (lib = t->vm->libraries; lib; lib = lib->next())" from the i-th
\* library on: the first that resolves the symbol, or 0.
RECURSIVE resolveInLibraries(_)
resolveInLibraries(i) ==
  IF i > NumLibraries THEN 0
  ELSE IF symbols.libraries[i] THEN i
  ELSE resolveInLibraries(i + 1)

\* resolveNativeMethodData looking in the builtin map before the libraries.
resolveNativeMethodDataBuiltinFirst(s, method) ==
  LET lib == resolveInLibraries(1)
      looked == [s EXCEPT !.obs.lookups[method] = @ + 1]
      data == IF symbols.builtin THEN makeNativeMethodData(s, method, 0, TRUE)
              ELSE IF lib # 0 THEN makeNativeMethodData(s, method, lib, FALSE)
              ELSE s.nativeCode[method]
  IN IF ~s.nativeCode[method].bound
     THEN IF data.bound
          THEN Return([looked EXCEPT !.nativeCode[method] = data], data)
          ELSE Return(raiseWith(looked, UnsatisfiedLinkError, data.symbol), data)
     ELSE Return(s, s.nativeCode[method])

\* r is the native data, or the unbound symbol with UnsatisfiedLinkError
\* pending.  A store past the end of the array of parameter types is
\* undefined behaviour.  History: the lookups made for the method.
resolveNativeMethodData(s, method) ==
  LET lib == resolveInLibraries(1)
      looked == [s EXCEPT !.obs.lookups[method] = @ + 1]
      data == IF lib # 0 THEN makeNativeMethodData(s, method, lib, FALSE)
              ELSE IF symbols.builtin THEN makeNativeMethodData(s, method, 0, TRUE)
              ELSE s.nativeCode[method]
      stored(s1) == IF Len(data.parameterTypes) > data.length
                    THEN Goto(s1, "undefined") ELSE s1
  IN IF ~s.nativeCode[method].bound
     THEN IF data.bound
          THEN stored(Return([looked EXCEPT !.nativeCode[method] = data], data))
          ELSE Return(raiseWith(looked, UnsatisfiedLinkError, data.symbol), data)
     ELSE Return(s, s.nativeCode[method])

\* History: invokeNative, entered in b, returns in a because the method is
\* not bound.
noteUnbound(b, a, method) ==
  [a EXCEPT !.obs.unbound = [method |-> method, n |-> @.n + 1, exception |-> a.exception,
                             before |-> Registers(b), after |-> Registers(a)]]

\* invokeNative with pushFrame before resolveNativeMethodData.
invokeNativeBeginFrameFirst(s, method) ==
  LET call(builtin) == [method |-> method, builtin |-> builtin, oldState |-> s.state,
                        calls |-> 0, launcher |-> FALSE]
      idle(s2, builtin) ==
        Goto(Return(IF builtin THEN s2 ELSE enter(s2, "Idle"), call(builtin)), "native")
      bound(s1) == IF s1.k = "undefined" THEN s1
                   ELSE IF s1.exception # 0
                   THEN Return(noteUnbound(s, s1, method), "VoidField")
                   ELSE idle(s1, s1.r.builtin)
  IN bound(resolveNativeMethodData(pushFrame(s, method), method))

\* invokeNative up to the call of the native function; r is the call record.
invokeNativeBegin(s, method) ==
  LET call(builtin) == [method |-> method, builtin |-> builtin, oldState |-> s.state,
                        calls |-> 0, launcher |-> FALSE]
      idle(s2, builtin) ==
        Goto(Return(IF builtin THEN s2 ELSE enter(s2, "Idle"), call(builtin)), "native")
      bound(s1) == IF s1.k = "undefined" THEN s1
                   ELSE IF s1.exception # 0
                   THEN Return(noteUnbound(s, s1, method), "VoidField")
                   ELSE idle(pushFrame(s1, method), s1.r.builtin)
  IN bound(resolveNativeMethodData(s, method))

\* invokeNativeEnd without "if (not builtin) enter(t, oldState)".
invokeNativeEndStayingIdle(s, call, result) ==
  LET returnCode == methodReturnCode(call.method)
      push(s2) == IF s2.exception # 0 THEN Return(s2, "VoidField")
                  ELSE Return(CASE returnCode = "IntField" -> pushInt(s2, result)
                                [] returnCode = "LongField" -> pushLong(s2, result)
                                [] returnCode = "ObjectField" -> pushObject(s2, result)
                                [] OTHER -> s2,
                              returnCode)
  IN push(popFrame(s))

\* invokeNative from the return of the native function; r is the return code.
invokeNativeEnd(s, call, result) ==
  LET returnCode == methodReturnCode(call.method)
      push(s2) == IF s2.exception # 0 THEN Return(s2, "VoidField")
                  ELSE Return(CASE returnCode = "IntField" -> pushInt(s2, result)
                                [] returnCode = "LongField" -> pushLong(s2, result)
                                [] returnCode = "ObjectField" -> pushObject(s2, result)
                                [] OTHER -> s2,
                              returnCode)
  IN push(popFrame(IF call.builtin THEN s ELSE enter(s, call.oldState)))

----------------------------------------------------------------------------
(* The invoke and throw_ labels of the dispatch loop.                      *)

\* The invoke label without its two tests of the exception slot.
invokeUnchecked(s) ==
  LET checked(s1) == IF s1.exception # 0 THEN Goto(noteInvoke(s, s1, s.code), "loop")
                     ELSE Goto(noteInvoke(s, pushFrame(s1, s1.code), s.code), "loop")
  IN IF "NATIVE" \in methodFlags(s.code)
     THEN invokeNativeBegin(s, s.code)
     ELSE checked(checkStack(s, s.code))

invoke(s) ==
  LET called(s1) == IF s1.exception # 0 THEN Goto(s1, "throw") ELSE s1
      checked(s1) == IF s1.exception # 0 THEN Goto(noteInvoke(s, s1, s.code), "throw")
                     ELSE Goto(noteInvoke(s, pushFrame(s1, s1.code), s.code), "loop")
  IN IF "NATIVE" \in methodFlags(s.code)
     THEN called(invokeNativeBegin(s, s.code))
     ELSE checked(checkStack(s, s.code))

\* History: a handler whose range holds the saved ip - 1 was examined.
noteHandler(s, eh, failed, entered) ==
  LET thrown == s.obs.unwind.thrown
      entry == s.pool[methodClass(s.code)][eh.catchType]
      h == [frame |-> s.frame, catchType |-> eh.catchType, failed |-> failed,
            instance |-> /\ eh.catchType # 0
                         /\ ~failed
                         /\ instanceOf(s, entry.class, thrown),
            entered |-> entered]
  IN [s EXCEPT !.obs.unwind.seen = @ \cup {h}, !.obs.unwind.now = entered,
               !.obs.unwind.ip = eh.ip]

\* sp = frame + FrameFootprint; ip = handler's; pushObject(exception); exception = 0
enterHandler(s, eh) ==
  LET s1 == [s EXCEPT !.sp = s.frame + FrameFootprint, !.ip = eh.ip]
  IN Goto([pushObject(s1, s.exception) EXCEPT !.exception = 0], "loop")

\* The handlers of s.code from the i-th on; k is "next" when none is taken.
\* The history keeps every entry examined, with the frame it belongs to and
\* the position its range was tested against.
RECURSIVE handlers(_, _)
handlers(s, i) ==
  LET eht == methods[s.code].eht
      eh == eht[i]
      at == add32(frameIp(s, s.frame), -1)
      entry == s.pool[methodClass(s.code)][eh.catchType]
      typed == eh.catchType # 0 /\ entry.tag # "Null"
      match(s1) ==
        LET catchType == s1.r
        IN IF catchType = "" \/ instanceOf(s1, catchType, s1.exception)
           THEN enterHandler(noteHandler(s1, eh, typed /\ catchType = "", TRUE), eh)
           ELSE handlers(noteHandler(s1, eh, typed /\ catchType = "", FALSE), i + 1)
      examined(s1) ==
        IF uge32(at, eh.start) /\ ult32(at, eh.end)
        THEN IF typed /\ entry.tag # "ByteArray" THEN Goto(s1, "undefined")
             ELSE IF typed THEN match(resolveClassSpec(s1, entry.class))
             ELSE match(Return(s1, ""))
        ELSE handlers(s1, i + 1)
  IN IF i > Len(eht) THEN Goto(s, "next")
     ELSE examined([s EXCEPT !.obs.unwind.tried =
                               Append(@, [frame |-> s.frame, entry |-> i, at |-> at])])

\* The lines printed for exception e of the chain of the pending exception:
\* the header, with the class name and the message of the pending exception,
\* then the trace of e.
RECURSIVE printChain(_, _)
printChain(s, e) ==
  IF e = 0 THEN s
  ELSE LET header == [intro |-> IF e = s.exception THEN "uncaught exception: "
                                ELSE "caused by: ",
                      class |-> objectClass(s, s.exception),
                      message |-> s.heap[s.exception].fields[ThrowableMessage],
                      trace |-> s.heap[e].fields[ThrowableTrace]]
       IN printChain([s EXCEPT !.stderr = Append(@, header)],
                     s.heap[e].fields[ThrowableCause])

\* for (; frame >= 0; frame = frameNext(t, frame)); the history keeps the
\* value of frame at every test of the loop.
RECURSIVE unwind(_)
unwind(s) ==
  LET method == frameMethod(s, s.frame)
      scanned(s1) ==
        IF s1.k = "next"
        THEN unwind([s1 EXCEPT !.frame = frameNext(s1, s1.frame), !.k = "throw"])
        ELSE s1
      tested(s1) ==
        IF s1.frame < 0
        THEN Goto(Return(printChain([s1 EXCEPT !.obs.unwind.uncaught = TRUE],
                                    s1.exception), 0),
                  "return")
        ELSE IF "NATIVE" \in methodFlags(method) THEN Goto(Return(s1, 0), "return")
        ELSE scanned(handlers([s1 EXCEPT !.code = method], 1))
  IN tested([s EXCEPT !.obs.unwind.walk = Append(@, s.frame)])

throw_(s) ==
  unwind([pokeInt(s, s.frame + FrameIpOffset, s.ip) EXCEPT !.obs.unwind =
            [now |-> FALSE, thrown |-> s.exception, ip |-> 0, seen |-> {},
             walk |-> << >>, tried |-> << >>, saved |-> s.ip, uncaught |-> FALSE]])

\* What follows a handler: the invoke label, then the throw_ label.
Settle(s) ==
  LET thrown(a) == IF a.k = "throw" THEN throw_(a) ELSE a
  IN IF s.k = "invoke" THEN thrown(invoke(s)) ELSE thrown(s)

----------------------------------------------------------------------------
(* The launcher, vm::run(t, className, methodName, methodSpec, this_, ...).*)

\* An argument of the launcher: an object ("L"), a long ("J") or an int ("I").
Argument(type, v) == [type |-> type, v |-> v]

\* parameterFootprint(methodSpec) of the arguments given.
RECURSIVE footprint(_)
footprint(args) ==
  IF args = <<>> THEN 0
  ELSE (IF Head(args).type = "J" THEN 2 ELSE 1) + footprint(Tail(args))

\* The loop over methodSpec: pushObject, pushLong or pushInt of each argument.
RECURSIVE pushArguments(_, _)
pushArguments(s, args) ==
  IF args = <<>> THEN s
  ELSE pushArguments(CASE Head(args).type = "L" -> pushObject(s, Head(args).v)
                       [] Head(args).type = "J" -> pushLong(s, Head(args).v)
                       [] OTHER -> pushInt(s, Head(args).v),
                     Tail(args))

\* The class of the array an embedding makes for a method of this spec.
ArrayClass(spec) ==
  CASE spec = "([III)I" -> "[I"
    [] spec = "([BII)I" -> "[B"
    [] spec = "([CII)I" -> "[C"
    [] spec = "([SII)I" -> "[S"
    [] spec = "([JIJ)J" -> "[J"
    [] spec = "([LBoot;ILBoot;)Ljava/lang/Object;" -> "[LBoot;"
    [] OTHER -> ""

\* The argument lists given to a method of this spec, boot being the
\* argument object and array the array made for it, or null.
Arguments(spec, boot, array) ==
  CASE spec \in {"(LBoot;)V", "(LBoot;)Ljava/lang/Object;"} -> { << Argument("L", boot) >> }
    [] spec \in {"([III)I", "([BII)I", "([CII)I", "([SII)I"} ->
         { << Argument("L", a), Argument("I", i), Argument("I", v) >> :
             a \in {0, array}, i \in IndexArgs, v \in ElementArgs }
    [] spec = "([JIJ)J" ->
         { << Argument("L", a), Argument("I", i), Argument("J", v) >> :
             a \in {0, array}, i \in IndexArgs, v \in {Long(0, 1), Long(-1, MinInt32)} }
    [] spec = "([LBoot;ILBoot;)Ljava/lang/Object;" ->
         { << Argument("L", a), Argument("I", i), Argument("L", v) >> :
             a \in {0, array}, i \in IndexArgs, v \in {0, boot} }
    [] spec = "(I)I" -> { << Argument("I", a) >> : a \in IntArgs }
    [] spec = "(II)I" -> { << Argument("I", a), Argument("I", b) >> : a, b \in IntArgs }
    [] spec = "(JJ)J" -> { << Argument("J", p[1]), Argument("J", p[2]) >> : p \in LongArgs }
    [] spec = "([I)V" -> { << Argument("L", 0) >> }
    [] spec = "(IJLBoot;)V" ->
         { << Argument("I", 1), Argument("J", Long(0, 1)), Argument("L", boot) >> }
    [] spec = "([[LBoot;I)V" -> { << Argument("L", 0), Argument("I", 1) >> }
    [] OTHER -> { <<>> }

\* Static methods only (this_ = 0).  The last
\* line of the launcher is "return ::run(t)", whose first statement goes to
\* throw_ when an exception is pending.
vmRun(s, className, reference, args) ==
  LET method == methodOf(findMethodInClass(className, reference))
      called(n) == IF n.k = "undefined" THEN n
                   ELSE IF n.exception # 0 THEN throw_(n)
                   ELSE [n EXCEPT !.r.launcher = TRUE]
      checked(b, c) == IF c.exception # 0 THEN throw_(noteInvoke(b, c, method))
                       ELSE Goto(noteInvoke(b, pushFrame(c, method), method), "loop")
      found(s2) == IF s2.exception # 0 THEN throw_(s2)
                   ELSE IF "NATIVE" \in methodFlags(method)
                   THEN called(invokeNativeBegin(s2, method))
                   ELSE checked(s2, checkStack(s2, method))
  IN IF s.sp + footprint(args) + 1 > StackSlots
     THEN Goto(Return(raise(s, StackOverflowError), 0), "return")
     ELSE found(resolveClassSpec(pushArguments(s, args), className))

----------------------------------------------------------------------------
(* History kept for the properties.                                        *)

FirstUse == {Op.getstatic, Op.putstatic, Op.new_, Op.invokestatic}

NoTrigger ==
  [op |-> 0, frame |-> 0, addr |-> 0, class |-> "", sp |-> 0, operands |-> <<>>,
   savedIp |-> 0, noEffect |-> TRUE, clinitFrame |-> 0, phase |-> "none"]

\* Whether the step from b to a did what instruction e.op is for.
effect(e, b, a) ==
  /\ a.k = "loop"
  /\ CASE e.op = Op.getstatic ->
            a.frame = b.frame /\ a.ip = b.ip + 3 /\ a.sp > b.sp
       [] e.op = Op.putstatic ->
            a.frame = b.frame /\ a.ip = b.ip + 3 /\ a.sp < b.sp
       [] e.op = Op.new_ ->
            /\ a.frame = b.frame /\ a.ip = b.ip + 3 /\ a.sp = b.sp + 1
            /\ Len(a.heap) = Len(b.heap) + 1
            /\ objectClass(a, topObject(a)) = e.class
       [] OTHER ->
            /\ a.frame > b.frame
            /\ methodClass(frameMethod(a, a.frame)) = e.class
            /\ methods[frameMethod(a, a.frame)].name # "<clinit>"

\* The history after instruction took the thread from b to a.
observe(b, instruction, a) ==
  LET pushed == a.k = "loop" /\ a.frame > b.frame
      method == frameMethod(a, a.frame)
      clinit == pushed /\ methods[method].name = "<clinit>"
      trig == a.obs.trig
      top == trig[Len(trig)]
      resumed == trig # <<>> /\ top.phase = "returned"
      returned == /\ trig # <<>> /\ top.phase = "running"
                  /\ instruction = Op.return_ /\ b.frame = top.clinitFrame
                  /\ a.k = "loop"
      new == [op |-> instruction, frame |-> b.frame, addr |-> b.ip,
              class |-> methodClass(method), sp |-> b.sp,
              operands |-> [i \in 1 .. (b.sp - b.frame - FrameFootprint) |->
                              b.stack[b.frame + FrameFootprint + i - 1]],
              savedIp |-> frameIp(a, b.frame),
              noEffect |-> a.statics = b.statics /\ a.heap = b.heap,
              clinitFrame |-> a.frame, phase |-> "running"]
      t1 == IF resumed
            THEN << [top EXCEPT !.phase =
                       IF /\ instruction = top.op /\ b.frame = top.frame
                          /\ b.ip = top.addr /\ effect(top, b, a)
                       THEN "done" ELSE "missed"] >>
            ELSE <<>>
      t2 == IF resumed THEN SubSeq(trig, 1, Len(trig) - 1)
            ELSE IF returned
            THEN [trig EXCEPT ![Len(trig)].phase = "returned"]
            ELSE trig
      live == SelectSeq(t2, LAMBDA e : e.phase = "returned" \/ a.frame >= e.clinitFrame)
      t3 == IF clinit /\ instruction \in FirstUse THEN Append(live, new) ELSE live
      met == IF instruction \in FirstUse
             THEN { c \in ClassNames : b.initializer[c] # 0 /\ a.initializer[c] = 0 }
             ELSE {}
  IN [a EXCEPT !.obs.trig = t3,
               !.obs.refused = IF clinit THEN @ ELSE @ \cup met,
               !.obs.last = IF resumed THEN t1[1] ELSE a.obs.last,
               !.obs.clinit = IF clinit
                              THEN [@ EXCEPT ![methodClass(method)] = @ + 1]
                              ELSE @]

\* The state an operation starts from.
Begin == [Cur EXCEPT !.obs.unwind.now = FALSE, !.obs.unwind.walk = << >>,
                     !.obs.unwind.tried = << >>]

----------------------------------------------------------------------------
(* Actions.                                                                *)

\* Where the thread is once an operation has left k in s.
Control(s, calls) ==
  /\ cstack' = IF s.k = "native" THEN Append(calls, s.r) ELSE calls
  /\ pc' = CASE s.k = "loop" -> "loop"
             [] s.k = "native" -> "native"
             [] s.k = "return" -> IF calls = <<>> THEN "exit" ELSE "native"
             [] s.k = "abort" -> "abort"
             [] OTHER -> "undefined"
  /\ UNCHANGED << classPath, symbols, exitCode, classes, methods, resolvers, initializers, registrars >>

\* The state after "instruction = codeBody(t, code, ip++)".
Fetched == [Begin EXCEPT !.ip = ip + 1]

\* The loop is at "instruction = codeBody(t, code, ip++)" and reads instruction.
Fetch(instruction) ==
  /\ pc = "loop"
  /\ "NATIVE" \notin methodFlags(code)
  /\ Len(heap) + 2 <= MaxHeap
  /\ codeBody(code, ip) = instruction

\* The rest of a turn of the dispatch loop, s being what the handler and the
\* labels it went to made of the state.
Dispatch(instruction, s) ==
  \E o \in {observe(Cur, instruction, s)} :
    Commit(o) /\ Control(s, cstack)

\* The loop fetches from the code of a native method: a callee the launcher
\* pushed on top of a native frame has returned into it.
FetchInNativeFrame ==
  /\ pc = "loop"
  /\ "NATIVE" \in methodFlags(code)
  /\ pc' = "undefined"
  /\ UNCHANGED << stack, sp, frame, ip, code, exception, state, pool, initializer,
                  virtualTable, nativeCode, heap, statics, monitors, weakReferences, classPath,
                  symbols, cstack, exitCode, stderr, classes, methods, resolvers, initializers, registrars, obs >>

\* run(System*, ...) up to the dispatch loop: run(t, className, argc, argv)
\* makes the argument object and calls the launcher on the method; or an
\* embedding calls the launcher on a method with arguments of its own, in
\* one of the states the launcher asserts (ActiveState or ExclusiveState).
\* The methods with arguments are run where every class and symbol is found.
Launch ==
  /\ pc = "start"
  /\ \E m \in Roots \cup NativeMethods
              \cup IF /\ classPath = ClassNames /\ symbols.builtin
                       /\ \A i \in 1 .. NumLibraries : symbols.libraries[i]
                    THEN Entries ELSE {} :
       \E s0 \in {IF ArrayClass(methods[m].spec) = "" THEN b
                   ELSE makeArray(b, ArrayClass(methods[m].spec), ArrayLength) :
                     b \in {allocate(enter(Begin, entered), "Boot") :
                              entered \in IF m \in NativeMethods
                                           THEN {"Active", "Exclusive"} ELSE {"Active"}}} :
         \E args \in Arguments(methods[m].spec, Len(Begin.heap) + 1, s0.r) :
           \E s \in {vmRun([s0 EXCEPT !.obs.root = m], "Main",
                            [name |-> methods[m].name, spec |-> methods[m].spec],
                            args)} :
             Commit(s) /\ Control(s, cstack)

\* The native function in progress calls the launcher on Main.cb.
NativeCallsRun ==
  /\ pc = "native"
  /\ state \in {"Active", "Exclusive"}
  /\ Len(heap) + 2 <= MaxHeap
  /\ cstack[Len(cstack)].calls < MaxCallbacks
  /\ \E s \in {vmRun(Begin, "Main", [name |-> "cb", spec |-> "()I"], <<>>)} :
       /\ Commit(s)
       /\ Control(s, [cstack EXCEPT ![Len(cstack)].calls = @ + 1])

\* What follows the native function's return: the rest of invokeNative, then
\* the launcher (which pops the result and returns it, or enters the loop
\* with the exception pending) or the invoke label (which goes to the loop
\* or to throw_).
nativeReturn(s, call, result) ==
  LET returned(s1) ==
        IF s1.exception # 0 THEN throw_(s1)
        ELSE IF ~call.launcher THEN Goto(s1, "loop")
        ELSE CASE s1.r = "IntField" -> Goto(makeInt(drop(s1, 1), topInt(s1)), "return")
               [] s1.r = "LongField" -> Goto(makeLong(drop(s1, 2), topLong(s1)), "return")
               [] s1.r = "ObjectField" -> Goto(Return(drop(s1, 1), topObject(s1)), "return")
               [] OTHER -> Goto(Return(s1, 0), "return")
  IN returned(invokeNativeEnd(s, call, result))

\* What the native function leaves pending: nothing, a Throwable without a
\* message, or a Throwable with a message and a cause of another class.
nativeThrows(s, throws) ==
  LET pending(a) == [a EXCEPT !.exception = a.r]
      caused(a) == pending(makeThrowable(a, Throwable, "boom", a.r))
  IN CASE throws = "plain" -> raise(s, Throwable)
       [] throws = "chain" -> caused(makeThrowable(s, "UserExc", "root cause", 0))
       [] OTHER -> s

\* The native function in progress returns result, or throws.
NativeReturns ==
  /\ pc = "native"
  /\ Len(heap) + 3 <= MaxHeap
  /\ \E result \in {0, 1}, throws \in {"none", "plain", "chain"} :
       \E s \in {nativeReturn(nativeThrows(Begin, throws),
                                cstack[Len(cstack)], result)} :
         /\ Commit(s)
         /\ Control(s, SubSeq(cstack, 1, Len(cstack) - 1))

\* A top-level run that sets the exit code to 0 whatever the exception slot holds.
ExitIgnoringException ==
  /\ pc = "exit"
  /\ exitCode' = 0
  /\ pc' = "done"
  /\ UNCHANGED << stack, sp, frame, ip, code, exception, state, pool, initializer,
                  virtualTable, nativeCode, heap, statics, monitors, weakReferences, classPath,
                  symbols, cstack, stderr, classes, methods, resolvers, initializers, registrars, obs >>

\* run(System*, ...) after the root invocation ended.
Exit ==
  /\ pc = "exit"
  /\ exitCode' = IF exception # 0 THEN -1 ELSE 0
  /\ pc' = "done"
  /\ UNCHANGED << stack, sp, frame, ip, code, exception, state, pool, initializer,
                  virtualTable, nativeCode, heap, statics, monitors, weakReferences, classPath,
                  symbols, cstack, stderr, classes, methods, resolvers, initializers, registrars, obs >>

Loadable == ClassNames \ {"Missing"}

InitMachine ==
  /\ methods = MethodTable
  /\ stack = [i \in StackDomain |-> [v |-> 0, tag |-> 0]]
  /\ sp = 0
  /\ frame = -1
  /\ ip = 0
  /\ code = 0
  /\ exception = 0
  /\ state = "NoState"
  /\ \E read \in {ClassTable} :
       /\ classes = read
       /\ pool = [c \in ClassNames |-> read[c].pool]
       /\ initializer = [c \in ClassNames |-> read[c].initializer]
  /\ virtualTable = [c \in ClassNames |-> FALSE]
  /\ nativeCode = [m \in NativeMethods |->
                     Symbol("Java_" \o methods[m].class \o "_" \o methods[m].name)]
  /\ heap = <<>>
  /\ statics = [c \in ClassNames |-> [i \in 0 .. 1 |-> 0]]
  /\ monitors = [object |-> [o \in 0 .. (MaxHeap + 1) |-> 0],
                 class |-> [c \in ClassNames |-> 0]]
  /\ weakReferences = 0
  /\ classPath \in {Loadable, ClassNames}
  /\ symbols \in [libraries : [1 .. NumLibraries -> BOOLEAN], builtin : BOOLEAN]
  /\ pc = "start"
  /\ cstack = <<>>
  /\ exitCode = 0
  /\ stderr = <<>>
  /\ obs = [work |-> [k \in Slots |-> 0],
            first |-> [k \in Slots |->
                         [done |-> FALSE, entry |-> NullEntry, work |-> 0,
                          same |-> TRUE, again |-> FALSE]],
            clinit |-> [c \in ClassNames |-> 0],
            unwind |-> [now |-> FALSE, thrown |-> 0, ip |-> 0, seen |-> {}, walk |-> << >>,
                        tried |-> << >>, saved |-> 0, uncaught |-> FALSE],
            trig |-> <<>>,
            last |-> NoTrigger,
            refused |-> {}, result |-> 0,
            lookups |-> [m \in NativeMethods |-> 0],
            frames |-> << >>,
            pop |-> [n |-> 0, popped |-> 0, entry |-> << >>, released |-> {},
                     after |-> << >>],
            invoke |-> [method |-> 0, n |-> 0, exception |-> 0,
                        before |-> << >>, after |-> << >>],
            unbound |-> [method |-> 0, n |-> 0, exception |-> 0,
                         before |-> << >>, after |-> << >>],
            root |-> 0]

\* No thread but the launcher's: none initializes a class beside it and none
\* registers a weak reference beside it.
NoInitializers == [class |-> "", thread |-> << >>, runs |-> 0, early |-> {}]
NoRegistrars == [referenceLock |-> 0, thread |-> << >>, made |-> {}]

\* One thread runs the launcher; no other thread resolves anything.
Init ==
  /\ InitMachine
  /\ resolvers = [slot |-> <<"Main", 1>>, kind |-> "", referenceClass |-> FALSE,
                  thread |-> << >>]
  /\ initializers = NoInitializers
  /\ registrars = NoRegistrars

Next ==
  \/ /\ Fetch(Op.aconst_null)
     /\ \E s \in {aconst_null(Fetched)} : Dispatch(Op.aconst_null, s)
  \/ /\ Fetch(Op.iconst_0)
     /\ \E s \in {iconst(Fetched, 0)} : Dispatch(Op.iconst_0, s)
  \/ /\ Fetch(Op.iconst_1)
     /\ \E s \in {iconst(Fetched, 1)} : Dispatch(Op.iconst_1, s)
  \/ /\ Fetch(Op.lconst_0)
     /\ \E s \in {lconst(Fetched, 0)} : Dispatch(Op.lconst_0, s)
  \/ /\ Fetch(Op.lconst_1)
     /\ \E s \in {lconst(Fetched, 1)} : Dispatch(Op.lconst_1, s)
  \/ /\ Fetch(Op.iload_0)
     /\ \E s \in {iload(Fetched, 0)} : Dispatch(Op.iload_0, s)
  \/ /\ Fetch(Op.iload_1)
     /\ \E s \in {iload(Fetched, 1)} : Dispatch(Op.iload_1, s)
  \/ /\ Fetch(Op.iload_2)
     /\ \E s \in {iload(Fetched, 2)} : Dispatch(Op.iload_2, s)
  \/ /\ Fetch(Op.lload_2)
     /\ \E s \in {lload(Fetched, 2)} : Dispatch(Op.lload_2, s)
  \/ /\ Fetch(Op.aload_1)
     /\ \E s \in {aload(Fetched, 1)} : Dispatch(Op.aload_1, s)
  \/ /\ Fetch(Op.astore_0)
     /\ \E s \in {astore(Fetched, 0)} : Dispatch(Op.astore_0, s)
  \/ /\ Fetch(Op.aload_2)
     /\ \E s \in {aload(Fetched, 2)} : Dispatch(Op.aload_2, s)
  \/ /\ Fetch(Op.iaload)
     /\ \E s \in {Settle(arrayLoad(Fetched, "int"))} : Dispatch(Op.iaload, s)
  \/ /\ Fetch(Op.laload)
     /\ \E s \in {Settle(arrayLoad(Fetched, "long"))} : Dispatch(Op.laload, s)
  \/ /\ Fetch(Op.aaload)
     /\ \E s \in {Settle(arrayLoad(Fetched, "object"))} : Dispatch(Op.aaload, s)
  \/ /\ Fetch(Op.baload)
     /\ \E s \in {Settle(arrayLoad(Fetched, "byte"))} : Dispatch(Op.baload, s)
  \/ /\ Fetch(Op.caload)
     /\ \E s \in {Settle(arrayLoad(Fetched, "char"))} : Dispatch(Op.caload, s)
  \/ /\ Fetch(Op.saload)
     /\ \E s \in {Settle(arrayLoad(Fetched, "short"))} : Dispatch(Op.saload, s)
  \/ /\ Fetch(Op.iastore)
     /\ \E s \in {Settle(arrayStore(Fetched, "int"))} : Dispatch(Op.iastore, s)
  \/ /\ Fetch(Op.lastore)
     /\ \E s \in {Settle(arrayStore(Fetched, "long"))} : Dispatch(Op.lastore, s)
  \/ /\ Fetch(Op.aastore)
     /\ \E s \in {Settle(arrayStore(Fetched, "object"))} : Dispatch(Op.aastore, s)
  \/ /\ Fetch(Op.bastore)
     /\ \E s \in {Settle(arrayStore(Fetched, "byte"))} : Dispatch(Op.bastore, s)
  \/ /\ Fetch(Op.castore)
     /\ \E s \in {Settle(arrayStore(Fetched, "char"))} : Dispatch(Op.castore, s)
  \/ /\ Fetch(Op.sastore)
     /\ \E s \in {Settle(arrayStore(Fetched, "short"))} : Dispatch(Op.sastore, s)
  \/ /\ Fetch(Op.lload_0)
     /\ \E s \in {lload(Fetched, 0)} : Dispatch(Op.lload_0, s)
  \/ /\ Fetch(Op.idiv)
     /\ \E s \in {idiv(Fetched)} : Dispatch(Op.idiv, s)
  \/ /\ Fetch(Op.irem)
     /\ \E s \in {irem(Fetched)} : Dispatch(Op.irem, s)
  \/ /\ Fetch(Op.iushr)
     /\ \E s \in {iushr(Fetched)} : Dispatch(Op.iushr, s)
  \/ /\ Fetch(Op.bipush)
     /\ \E s \in {bipush(Fetched)} : Dispatch(Op.bipush, s)
  \/ /\ Fetch(Op.sipush)
     /\ \E s \in {sipush(Fetched)} : Dispatch(Op.sipush, s)
  \/ /\ Fetch(Op.iinc)
     /\ \E s \in {iinc(Fetched)} : Dispatch(Op.iinc, s)
  \/ /\ Fetch(Op.wide)
     /\ \E s \in {wide_(Fetched)} : Dispatch(Op.wide, s)
  \/ /\ Fetch(Op.ifeq)
     /\ \E s \in {if_(Fetched, "eq")} : Dispatch(Op.ifeq, s)
  \/ /\ Fetch(Op.ifne)
     /\ \E s \in {if_(Fetched, "ne")} : Dispatch(Op.ifne, s)
  \/ /\ Fetch(Op.iflt)
     /\ \E s \in {if_(Fetched, "lt")} : Dispatch(Op.iflt, s)
  \/ /\ Fetch(Op.ifge)
     /\ \E s \in {if_(Fetched, "ge")} : Dispatch(Op.ifge, s)
  \/ /\ Fetch(Op.ifgt)
     /\ \E s \in {if_(Fetched, "gt")} : Dispatch(Op.ifgt, s)
  \/ /\ Fetch(Op.ifle)
     /\ \E s \in {if_(Fetched, "le")} : Dispatch(Op.ifle, s)
  \/ /\ Fetch(Op.if_icmpeq)
     /\ \E s \in {if_icmp(Fetched, "eq")} : Dispatch(Op.if_icmpeq, s)
  \/ /\ Fetch(Op.if_icmpne)
     /\ \E s \in {if_icmp(Fetched, "ne")} : Dispatch(Op.if_icmpne, s)
  \/ /\ Fetch(Op.if_icmplt)
     /\ \E s \in {if_icmp(Fetched, "lt")} : Dispatch(Op.if_icmplt, s)
  \/ /\ Fetch(Op.if_icmpge)
     /\ \E s \in {if_icmp(Fetched, "ge")} : Dispatch(Op.if_icmpge, s)
  \/ /\ Fetch(Op.if_icmpgt)
     /\ \E s \in {if_icmp(Fetched, "gt")} : Dispatch(Op.if_icmpgt, s)
  \/ /\ Fetch(Op.if_icmple)
     /\ \E s \in {if_icmp(Fetched, "le")} : Dispatch(Op.if_icmple, s)
  \/ /\ Fetch(Op.if_acmpeq)
     /\ \E s \in {if_acmp(Fetched, "eq")} : Dispatch(Op.if_acmpeq, s)
  \/ /\ Fetch(Op.if_acmpne)
     /\ \E s \in {if_acmp(Fetched, "ne")} : Dispatch(Op.if_acmpne, s)
  \/ /\ Fetch(Op.ifnull)
     /\ \E s \in {ifnull(Fetched)} : Dispatch(Op.ifnull, s)
  \/ /\ Fetch(Op.ifnonnull)
     /\ \E s \in {ifnonnull(Fetched)} : Dispatch(Op.ifnonnull, s)
  \/ /\ Fetch(Op.goto_)
     /\ \E s \in {goto_(Fetched)} : Dispatch(Op.goto_, s)
  \/ /\ Fetch(Op.goto_w)
     /\ \E s \in {goto_w(Fetched)} : Dispatch(Op.goto_w, s)
  \/ /\ Fetch(Op.jsr)
     /\ \E s \in {jsr(Fetched)} : Dispatch(Op.jsr, s)
  \/ /\ Fetch(Op.jsr_w)
     /\ \E s \in {jsr_w(Fetched)} : Dispatch(Op.jsr_w, s)
  \/ /\ Fetch(Op.swap)
     /\ \E s \in {swap(Fetched)} : Dispatch(Op.swap, s)
  \/ /\ Fetch(Op.dup_x1)
     /\ \E s \in {dup_x1(Fetched)} : Dispatch(Op.dup_x1, s)
  \/ /\ Fetch(Op.dup_x2)
     /\ \E s \in {dup_x2(Fetched)} : Dispatch(Op.dup_x2, s)
  \/ /\ Fetch(Op.dup2)
     /\ \E s \in {dup2(Fetched)} : Dispatch(Op.dup2, s)
  \/ /\ Fetch(Op.dup2_x1)
     /\ \E s \in {dup2_x1(Fetched)} : Dispatch(Op.dup2_x1, s)
  \/ /\ Fetch(Op.dup2_x2)
     /\ \E s \in {dup2_x2(Fetched)} : Dispatch(Op.dup2_x2, s)
  \/ /\ Fetch(Op.ldiv)
     /\ \E s \in {ldiv(Fetched)} : Dispatch(Op.ldiv, s)
  \/ /\ Fetch(Op.lrem)
     /\ \E s \in {lrem(Fetched)} : Dispatch(Op.lrem, s)
  \/ /\ Fetch(Op.aload_0)
     /\ \E s \in {aload(Fetched, 0)} : Dispatch(Op.aload_0, s)
  \/ /\ Fetch(Op.lstore_1)
     /\ \E s \in {lstore(Fetched, 1)} : Dispatch(Op.lstore_1, s)
  \/ /\ Fetch(Op.pop_)
     /\ \E s \in {pop_(Fetched)} : Dispatch(Op.pop_, s)
  \/ /\ Fetch(Op.pop2)
     /\ \E s \in {pop2(Fetched)} : Dispatch(Op.pop2, s)
  \/ /\ Fetch(Op.dup)
     /\ \E s \in {dup(Fetched)} : Dispatch(Op.dup, s)
  \/ /\ Fetch(Op.iadd)
     /\ \E s \in {iadd(Fetched)} : Dispatch(Op.iadd, s)
  \/ /\ Fetch(Op.lshl)
     /\ \E s \in {lshl(Fetched)} : Dispatch(Op.lshl, s)
  \/ /\ Fetch(Op.lshr)
     /\ \E s \in {lshr(Fetched)} : Dispatch(Op.lshr, s)
  \/ /\ Fetch(Op.lushr)
     /\ \E s \in {lushr(Fetched)} : Dispatch(Op.lushr, s)
  \/ /\ Fetch(Op.lneg)
     /\ \E s \in {lneg(Fetched)} : Dispatch(Op.lneg, s)
  \/ /\ Fetch(Op.ireturn)
     /\ \E s \in {Settle(ireturn(Fetched))} : Dispatch(Op.ireturn, s)
  \/ /\ Fetch(Op.lreturn)
     /\ \E s \in {Settle(lreturn(Fetched))} : Dispatch(Op.lreturn, s)
  \/ /\ Fetch(Op.areturn)
     /\ \E s \in {Settle(areturn(Fetched))} : Dispatch(Op.areturn, s)
  \/ /\ Fetch(Op.return_)
     /\ \E s \in {Settle(return_(Fetched))} : Dispatch(Op.return_, s)
  \/ /\ Fetch(Op.getstatic)
     /\ \E s \in {Settle(getstatic(Fetched))} : Dispatch(Op.getstatic, s)
  \/ /\ Fetch(Op.putstatic)
     /\ \E s \in {Settle(putstatic(Fetched))} : Dispatch(Op.putstatic, s)
  \/ /\ Fetch(Op.getfield)
     /\ \E s \in {Settle(getfield(Fetched))} : Dispatch(Op.getfield, s)
  \/ /\ Fetch(Op.invokevirtual)
     /\ \E s \in {Settle(invokevirtual(Fetched))} : Dispatch(Op.invokevirtual, s)
  \/ /\ Fetch(Op.invokeinterface)
     /\ \E s \in {Settle(invokeinterface(Fetched))} : Dispatch(Op.invokeinterface, s)
  \/ /\ Fetch(Op.invokespecial)
     /\ \E s \in {Settle(invokespecial(Fetched))} : Dispatch(Op.invokespecial, s)
  \/ /\ Fetch(Op.invokestatic)
     /\ \E s \in {Settle(invokestatic(Fetched))} : Dispatch(Op.invokestatic, s)
  \/ /\ Fetch(Op.new_)
     /\ \E s \in {Settle(new_(Fetched))} : Dispatch(Op.new_, s)
  \/ /\ Fetch(Op.instanceof)
     /\ \E s \in {Settle(instanceof(Fetched))} : Dispatch(Op.instanceof, s)
  \/ /\ Fetch(Op.checkcast)
     /\ \E s \in {Settle(checkcast(Fetched))} : Dispatch(Op.checkcast, s)
  \/ /\ Fetch(Op.athrow)
     /\ \E s \in {Settle(athrow(Fetched))} : Dispatch(Op.athrow, s)
  \/ FetchInNativeFrame
  \/ Launch
  \/ NativeCallsRun
  \/ NativeReturns
  \/ Exit

Spec == Init /\ [][Next]_vars

----------------------------------------------------------------------------
(* Threads that resolve the same pool slot at the same time.  No lock is   *)
(* taken in resolveClass or resolve, so the threads interleave at every    *)
(* read and write of the slot.                                             *)

NumThreads == 2
Threads == 1 .. NumThreads

\* What thread t of the resolvers is at, and the slot they resolve.
resolver(t) == resolvers.thread[t]
slotEntry == pool[resolvers.slot[1]][resolvers.slot[2]]

\* Thread t moves on: to the statement at, with o, class_ and the pending
\* exception of its own.
proceed(t, at, o, class, error, misread) ==
  [resolvers EXCEPT !.thread[t] =
     [at |-> at, o |-> o, class_ |-> class, exception |-> error,
      misread |-> resolver(t).misread \/ misread]]

machine ==
  << stack, sp, frame, ip, code, exception, state, initializer, nativeCode, heap,
     statics, monitors, weakReferences, classPath, symbols, pc, cstack, exitCode,
     stderr, classes, methods, initializers, registrars, obs >>

\* "object o = arrayBody(t, pool, index)" and the test of its type, at the
\* head of resolveClass(t, pool, index) and of resolve.
ResolveRead(t) ==
  /\ resolver(t).at = "start"
  /\ resolvers' =
       IF slotEntry.tag = "Null" THEN proceed(t, "undefined", NullEntry, "", "", FALSE)
       ELSE IF resolvers.kind = "Class" /\ slotEntry.tag = "ByteArray"
       THEN proceed(t, "load", slotEntry, "", "", FALSE)
       ELSE IF resolvers.kind # "Class" /\ slotEntry.tag = "Reference"
       THEN proceed(t, "class", slotEntry, "", "", FALSE)
       ELSE proceed(t, "done", slotEntry, "", "", FALSE)
  /\ UNCHANGED << machine, pool, virtualTable >>

\* resolveClass(t, pool, index): "o = resolveClass(t, o); if
\* (UNLIKELY(t->exception)) return 0"
ResolveClassLoad(t) ==
  /\ resolver(t).at = "load"
  /\ IF resolver(t).o.class \in classPath
     THEN /\ resolvers' = proceed(t, "set", [resolver(t).o EXCEPT !.tag = "Class"], "", "",
                                  FALSE)
          /\ virtualTable' = [virtualTable EXCEPT ![resolver(t).o.class] = TRUE]
     ELSE /\ resolvers' = proceed(t, "done", NullEntry, "", ClassNotFoundException, FALSE)
          /\ UNCHANGED virtualTable
  /\ UNCHANGED << machine, pool >>

\* resolveClass(t, pool, index): "set(t, arrayBody(t, pool, index), o); return o"
ResolveClassSet(t) ==
  /\ resolver(t).at = "set"
  /\ pool' = [pool EXCEPT ![resolvers.slot[1]][resolvers.slot[2]] = resolver(t).o]
  /\ resolvers' = proceed(t, "done", resolver(t).o, "", "", FALSE)
  /\ UNCHANGED << machine, virtualTable >>

\* resolve: "object class_ = resolveClass(t, o, referenceClass); if
\* (UNLIKELY(t->exception)) return 0", on the Reference the thread read.
ResolveReferenceClass(t) ==
  /\ resolver(t).at = "class"
  /\ IF resolvers.referenceClass \/ resolver(t).o.class \in classPath
     THEN /\ resolvers' = [proceed(t, "find", resolver(t).o, resolver(t).o.class, "", FALSE)
                             EXCEPT !.referenceClass = TRUE]
          /\ virtualTable' = [virtualTable EXCEPT ![resolver(t).o.class] = TRUE]
     ELSE /\ resolvers' = proceed(t, "done", NullEntry, "", ClassNotFoundException, FALSE)
          /\ UNCHANGED virtualTable
  /\ UNCHANGED << machine, pool >>

\* resolve: one turn of "for (o = 0; o == 0 and class_; class_ =
\* classSuper(t, class_)) o = find(t, class_, arrayBody(t, pool, index))".
\* The slot is read again in every turn and what it holds is handed to find
\* as the reference: if it is no Reference any more, find reads the name and
\* the spec out of an object of another type, or out of null, and finds
\* nothing or crashes.
ResolveFind(t) ==
  /\ resolver(t).at = "find"
  /\ LET class == resolver(t).class_
         reference == slotEntry
         found == IF resolvers.kind = "Field" THEN findFieldInClass(class, reference)
                  ELSE findMethodInClass(class, reference)
         miss(misread) ==
           IF classSuper(class) = ""
           THEN proceed(t, "store", NullEntry, "", "", misread)
           ELSE proceed(t, "find", resolver(t).o, classSuper(class), "", misread)
     IN IF reference.tag = "Reference"
        THEN resolvers' = IF found # NullEntry
                          THEN proceed(t, "store", found, class, "", FALSE)
                          ELSE miss(FALSE)
        ELSE \/ resolvers' = miss(TRUE)
             \/ resolvers' = proceed(t, "undefined", NullEntry, "", "", TRUE)
  /\ UNCHANGED << machine, pool, virtualTable >>

\* resolve: "if (o == 0) { ... t->exception = makeError(t, message); }
\* set(t, arrayBody(t, pool, index), o); ... return o"
ResolveStore(t) ==
  /\ resolver(t).at = "store"
  /\ pool' = [pool EXCEPT ![resolvers.slot[1]][resolvers.slot[2]] = resolver(t).o]
  /\ resolvers' =
       proceed(t, "done", resolver(t).o, "",
               IF resolver(t).o # NullEntry THEN ""
               ELSE IF resolvers.kind = "Field" THEN NoSuchFieldError
               ELSE NoSuchMethodError,
               FALSE)
  /\ UNCHANGED << machine, virtualTable >>

\* Every thread is about to resolve the same slot, by resolveClass if the
\* slot holds a class name, by resolveField or resolveMethod if it holds a
\* Reference.
InitResolve ==
  /\ InitMachine
  /\ initializers = NoInitializers
  /\ registrars = NoRegistrars
  /\ \E k \in Slots :
       resolvers =
         [slot |-> k,
          kind |-> CASE classes[k[1]].pool[k[2]].tag = "ByteArray" -> "Class"
                     [] classes[k[1]].pool[k[2]].spec \in {"I", "J"} -> "Field"
                     [] OTHER -> "Method",
          referenceClass |-> FALSE,
          thread |-> [t \in Threads |->
                        [at |-> "start", o |-> NullEntry, class_ |-> "", exception |-> "",
                         misread |-> FALSE]]]

NextResolve ==
  \/ \E t \in Threads : ResolveRead(t)
  \/ \E t \in Threads : ResolveClassLoad(t)
  \/ \E t \in Threads : ResolveClassSet(t)
  \/ \E t \in Threads : ResolveReferenceClass(t)
  \/ \E t \in Threads : ResolveFind(t)
  \/ \E t \in Threads : ResolveStore(t)

SpecResolve == InitResolve /\ [][NextResolve]_vars

----------------------------------------------------------------------------
(* Threads that run getstatic, putstatic, new or invokestatic on the same  *)
(* class at the same time.  The handlers take no lock around the read and  *)
(* the clearing of classInitializer, so the threads interleave at each.    *)

InitializingInstructions == { Op.getstatic, Op.putstatic, Op.new_, Op.invokestatic }

\* What thread t of the initializers is at.
initializing(t) == initializers.thread[t]

\* Thread t moves on to the statement at.
advance(t, at) == [initializers EXCEPT !.thread[t].at = at]

\* Everything but what the threads of the initializers share.
besideInitializers ==
  << stack, sp, frame, ip, code, exception, state, pool, virtualTable, nativeCode,
     monitors, weakReferences, classPath, symbols, pc, cstack, exitCode, stderr,
     classes, methods, resolvers, registrars, obs >>

\* "object clinit = classInitializer(t, class); if (clinit)", in the handler
\* of the instruction the thread runs.
InitializerRead(t) ==
  /\ initializing(t).at = "start"
  /\ initializers' =
       [initializers EXCEPT
          !.thread[t].clinit = initializer[initializers.class],
          !.thread[t].at = IF initializer[initializers.class] # 0 THEN "clear"
                           ELSE "effect"]
  /\ UNCHANGED << initializer, statics, heap >>
  /\ UNCHANGED besideInitializers

\* "set(t, classInitializer(t, class), 0); code = clinit; ip -= 3; goto
\* invoke": the initializer's frame is pushed and the thread is in it.
InitializerClear(t) ==
  /\ initializing(t).at = "clear"
  /\ initializer' = [initializer EXCEPT ![initializers.class] = 0]
  /\ initializers' =
       [initializers EXCEPT !.thread[t].at = "clinit", !.thread[t].ip = 0,
                            !.runs = initializers.runs + 1]
  /\ UNCHANGED << statics, heap >>
  /\ UNCHANGED besideInitializers

\* One instruction of the initializer: iconst_1 pushes, putstatic stores in
\* the class's static table, and return leaves the frame, after which the
\* instruction that triggered it runs again from its opcode.
InitializerRun(t) ==
  /\ initializing(t).at = "clinit"
  /\ LET clinit == initializing(t).clinit
         instruction == codeBody(clinit, initializing(t).ip)
         field == fieldOf(classes[methods[clinit].class].pool[
                    codeBody(clinit, initializing(t).ip + 1) * 256
                      + codeBody(clinit, initializing(t).ip + 2)])
     IN CASE instruction = Op.iconst_1 ->
               /\ initializers' = [initializers EXCEPT !.thread[t].ip = @ + 1,
                                                       !.thread[t].top = 1]
               /\ UNCHANGED statics
          [] instruction = Op.putstatic ->
               /\ statics' = [statics EXCEPT ![field.class][field.offset] =
                                               initializing(t).top]
               /\ initializers' = [initializers EXCEPT !.thread[t].ip = @ + 3]
          [] OTHER ->
               /\ initializers' = advance(t, "start")
               /\ UNCHANGED statics
  /\ UNCHANGED << initializer, heap >>
  /\ UNCHANGED besideInitializers

\* What the instruction does once it found classInitializer null: getstatic
\* reads the static field, putstatic writes it, new makes an instance and
\* invokestatic calls the method.  A thread that does so while another is
\* still inside the class's initializer is recorded in early.
InitializerEffect(t) ==
  /\ initializing(t).at = "effect"
  /\ Len(heap) < MaxHeap
  /\ LET class == initializers.class
         instruction == initializing(t).instruction
         field == classes[class].fieldTable[1]
     IN /\ statics' = IF instruction = Op.putstatic
                      THEN [statics EXCEPT ![class][field.offset] = initializing(t).top]
                      ELSE statics
        /\ heap' = IF instruction = Op.new_
                   THEN Append(heap, [class |-> class,
                                      fields |-> [i \in 1 .. classes[class].fixedSize |-> 0]])
                   ELSE heap
        /\ initializers' =
             [initializers EXCEPT
                !.thread[t].at = "done",
                !.thread[t].top = IF instruction = Op.getstatic
                                  THEN statics[class][field.offset] ELSE @,
                !.early = IF \E u \in Threads : initializing(u).at = "clinit"
                          THEN @ \cup {t} ELSE @]
  /\ UNCHANGED initializer
  /\ UNCHANGED besideInitializers

\* Every thread is about to run one of the four instructions on class K,
\* which no thread has initialized.
InitInitialize ==
  /\ InitMachine
  /\ resolvers = [slot |-> <<"Main", 1>>, kind |-> "", referenceClass |-> FALSE,
                  thread |-> << >>]
  /\ registrars = NoRegistrars
  /\ \E run \in [Threads -> InitializingInstructions] :
       initializers =
         [class |-> "K",
          thread |-> [t \in Threads |->
                        [instruction |-> run[t], at |-> "start", clinit |-> 0, ip |-> 0,
                         top |-> 2]],
          runs |-> 0, early |-> {}]

NextInitialize ==
  \/ \E t \in Threads : InitializerRead(t)
  \/ \E t \in Threads : InitializerClear(t)
  \/ \E t \in Threads : InitializerRun(t)
  \/ \E t \in Threads : InitializerEffect(t)

SpecInitialize == InitInitialize /\ [][NextInitialize]_vars

----------------------------------------------------------------------------
(* Threads that make instances at the same time.  registerWeakReference    *)
(* holds referenceLock from its ACQUIRE to its return; the threads         *)
(* interleave at every statement of it.                                    *)

\* The instances the threads make at most, all together.
MaxMade == 4

\* What thread t of the registrars is at.
registrar(t) == registrars.thread[t]

\* Everything but what the threads of the registrars share.
besideRegistrars ==
  << stack, sp, frame, ip, code, exception, state, pool, initializer, virtualTable,
     nativeCode, statics, monitors, classPath, symbols, pc, cstack, exitCode, stderr,
     classes, methods, resolvers, initializers, obs >>

\* make(t, class_) up to its test of WeakReferenceFlag: the instance is
\* allocated and, if its class has the flag, registerWeakReference is entered.
RegisterMake(t) ==
  /\ registrar(t).at = "make"
  /\ Len(heap) < MaxHeap
  /\ Cardinality(registrars.made) < MaxMade
  /\ \E class \in {"Weak", "K"} :
       /\ heap' = Append(heap, [class |-> class,
                                fields |-> [i \in 1 .. classes[class].fixedSize |-> 0]])
       /\ registrars' =
            [registrars EXCEPT
               !.thread[t] = [at |-> IF WeakReferenceFlag \in classes[class].flags
                                     THEN "acquire" ELSE "make",
                              r |-> Len(heap) + 1],
               !.made = @ \cup {[instance |-> Len(heap) + 1, thread |-> t]}]
  /\ UNCHANGED weakReferences
  /\ UNCHANGED besideRegistrars

\* The same without the wait for the lock.
RegisterAcquireUnlocked(t) ==
  /\ registrar(t).at = "acquire"
  /\ registrars' = [registrars EXCEPT !.referenceLock = t, !.thread[t].at = "link"]
  /\ UNCHANGED << heap, weakReferences >>
  /\ UNCHANGED besideRegistrars

\* ACQUIRE(t, t->vm->referenceLock): the thread waits until no thread holds
\* the lock and takes it.
RegisterAcquire(t) ==
  /\ registrar(t).at = "acquire"
  /\ registrars.referenceLock = 0
  /\ registrars' = [registrars EXCEPT !.referenceLock = t, !.thread[t].at = "link"]
  /\ UNCHANGED << heap, weakReferences >>
  /\ UNCHANGED besideRegistrars

\* cast<object>(r, 3 * BytesPerWord) = t->vm->weakReferences
RegisterLink(t) ==
  /\ registrar(t).at = "link"
  /\ heap' = [heap EXCEPT ![registrar(t).r].fields[JreferenceNext] = weakReferences]
  /\ registrars' = [registrars EXCEPT !.thread[t].at = "head"]
  /\ UNCHANGED weakReferences
  /\ UNCHANGED besideRegistrars

\* t->vm->weakReferences = r
RegisterHead(t) ==
  /\ registrar(t).at = "head"
  /\ weakReferences' = registrar(t).r
  /\ registrars' = [registrars EXCEPT !.thread[t].at = "release"]
  /\ UNCHANGED heap
  /\ UNCHANGED besideRegistrars

\* The return of registerWeakReference, where the lock taken by ACQUIRE is
\* given back; the thread goes on to its next allocation.
RegisterRelease(t) ==
  /\ registrar(t).at = "release"
  /\ registrars' = [registrars EXCEPT !.referenceLock = 0, !.thread[t].at = "make"]
  /\ UNCHANGED << heap, weakReferences >>
  /\ UNCHANGED besideRegistrars

\* Every thread is about to make an instance; the chain is empty.
InitRegister ==
  /\ InitMachine
  /\ classPath = ClassNames
  /\ \A l \in 1 .. NumLibraries : symbols.libraries[l]
  /\ resolvers = [slot |-> <<"Main", 1>>, kind |-> "", referenceClass |-> FALSE,
                  thread |-> << >>]
  /\ initializers = NoInitializers
  /\ registrars = [referenceLock |-> 0,
                   thread |-> [t \in Threads |-> [at |-> "make", r |-> 0]],
                   made |-> {}]

NextRegister ==
  \/ \E t \in Threads : RegisterMake(t)
  \/ \E t \in Threads : RegisterAcquire(t)
  \/ \E t \in Threads : RegisterLink(t)
  \/ \E t \in Threads : RegisterHead(t)
  \/ \E t \in Threads : RegisterRelease(t)

SpecRegister == InitRegister /\ [][NextRegister]_vars

----------------------------------------------------------------------------
(* Properties.                                                             *)

\* The frames of the chain from f down whose method is synchronized on the
\* monitor of object o (class = "") or of class class; the chain ends at -1
\* or at a frame whose method slot holds no method.
RECURSIVE holders(_, _, _)
holders(f, o, class) ==
  IF f < 0 \/ stack[f + FrameMethodOffset].v \notin DOMAIN methods THEN 0
  ELSE LET method == stack[f + FrameMethodOffset].v
           flags == methods[method].flags
           on == /\ "SYNCHRONIZED" \in flags
                 /\ IF "STATIC" \in flags
                    THEN class = methods[method].class
                    ELSE class = "" /\ stack[stack[f + FrameBaseOffset].v].v = o
       IN (IF on THEN 1 ELSE 0) + holders(stack[f + FrameNextOffset].v, o, class)

\* C1: every monitor is held exactly as many times as there are frames of
\* methods synchronized on it in the frame chain, so a synchronized frame that
\* is gone, by a return or by an exception unwinding past it, has released the
\* monitor it acquired on entry.
C1_MonitorReleasedOnEveryExit ==
  pc \in {"loop", "native", "exit", "done"} =>
    /\ \A o \in 1 .. Len(heap) : monitors.object[o] = holders(frame, o, "")
    /\ \A c \in ClassNames : monitors.class[c] = holders(frame, 0, c)

\* C2: the static initializer of a class is invoked at most once.
C2_InitializerInvokedAtMostOnce ==
  \A c \in ClassNames : obs.clinit[c] <= 1

\* C3: when getstatic, putstatic, new or invokestatic meets a class with an
\* initializer, the <clinit> frame is pushed with the caller's saved ip at the
\* triggering opcode, the caller's operand stack untouched and nothing of the
\* opcode's effect done; when <clinit> returns the loop is back at that opcode
\* with the same operands, and its next turn does the opcode's effect.
C3_InitializerThenOpcode ==
  /\ obs.refused = {}
  /\ obs.last.phase \in {"none", "done"}
  /\ \A i \in 1 .. Len(obs.trig) :
       LET e == obs.trig[i]
       IN /\ e.savedIp = e.addr
          /\ e.noEffect
          /\ e.phase \in {"running", "returned"}
          /\ \A j \in 1 .. Len(e.operands) :
               stack[e.frame + FrameFootprint + j - 1] = e.operands[j]
          /\ e.phase = "returned" =>
               /\ pc = "loop"
               /\ frame = e.frame
               /\ sp = e.sp
               /\ ip = e.addr
               /\ code = stack[e.frame + FrameMethodOffset].v
               /\ codeBody(code, ip) = e.op

\* C4: at every opcode fetch, -1 <= frame < sp <= StackSlots.
C4_StackBounds ==
  pc = "loop" => -1 <= frame /\ frame < sp /\ sp <= StackSlots

\* C5: at every opcode fetch inside a frame, sp >= frame + FrameFootprint.
C5_NoUnderflowIntoFrame ==
  pc = "loop" /\ frame >= 0 => sp >= frame + FrameFootprint

\* C6: once a resolution of a pool slot has succeeded, the slot keeps the
\* entry it was given, every later resolution of it returns that entry, and no
\* class-finder lookup or table search is made for it any more.
C6_ResolvedSlotStaysResolved ==
  \A k \in Slots :
    obs.first[k].done =>
      /\ pool[k[1]][k[2]] = obs.first[k].entry
      /\ obs.first[k].same
      /\ obs.work[k] = obs.first[k].work

\* C6 witness: a slot resolved before has been resolved again.
C6_Witness == \E k \in Slots : obs.first[k].again

\* C7: a resolution that misses leaves the symbolic Reference in the slot: no
\* pool slot is ever emptied.
C7_MissLeavesReference ==
  \A k \in Slots : pool[k[1]][k[2]].tag # "Null"

\* C8: a handler whose range holds the saved ip - 1 is taken if and only if
\* its catch type is 0 or the exception thrown is an instance of the resolved
\* catch class.
C8_HandlerTakenIffMatch ==
  \A h \in obs.unwind.seen : h.entered <=> (h.catchType = 0 \/ h.instance)

\* C9: when the unwinder has selected a handler in frame F, frame = F, code is
\* F's method, the thrown exception is the only operand, ip is the handler's
\* and no exception is pending.
C9_HandlerEntryState ==
  obs.unwind.now =>
    /\ pc = "loop"
    /\ code = stack[frame + FrameMethodOffset].v
    /\ sp = frame + FrameFootprint + 1
    /\ stack[sp - 1] = ObjectSlot(obs.unwind.thrown)
    /\ ip = obs.unwind.ip
    /\ exception = 0

\* The exceptions of the cause chain of e, e first.
RECURSIVE causes(_)
causes(e) ==
  IF e = 0 THEN <<>> ELSE << e >> \o causes(heap[e].fields[ThrowableCause])

\* C20: idiv, irem, ldiv and lrem never trap.  With divisor 0 the handler
\* leaves ArithmeticException pending and goes to the unwinding; with any
\* other divisor it pushes the result and goes on with the loop: the
\* smallest value for (smallest value) / -1, and 0 for (smallest value) % -1.
C20_DivisionNeverTraps ==
  [][(/\ pc = "loop"
      /\ "NATIVE" \notin methodFlags(code)
      /\ codeBody(code, ip) \in {Op.idiv, Op.irem, Op.ldiv, Op.lrem})
     => LET instruction == codeBody(code, ip)
            long == instruction \in {Op.ldiv, Op.lrem}
            size == IF long THEN 2 ELSE 1
            b == IF long THEN Long(stack[sp - 2].v, stack[sp - 1].v) ELSE wide(stack[sp - 1].v)
            a == IF long THEN Long(stack[sp - 4].v, stack[sp - 3].v) ELSE wide(stack[sp - 2].v)
            smallest == IF long THEN Long(MinInt32, 0) ELSE wide(MinInt32)
            result == IF long THEN Long(stack'[sp' - 2].v, stack'[sp' - 1].v)
                      ELSE wide(stack'[sp' - 1].v)
        IN /\ pc' # "undefined"
           /\ IF b = Long(0, 0)
              THEN /\ exception' # 0
                   /\ heap'[exception'].class = "java/lang/ArithmeticException"
              ELSE /\ pc' = "loop" /\ exception' = 0
                   /\ sp' = sp - size
                   /\ (a = smallest /\ b = Long(-1, -1))
                      => result = IF instruction \in {Op.idiv, Op.ldiv}
                                  THEN smallest ELSE Long(0, 0)
    ]_vars

\* The kind of element an array load or store is for, and whether it stores.
ArrayOps ==
  [o \in {Op.baload, Op.caload, Op.saload, Op.iaload, Op.laload, Op.aaload,
           Op.bastore, Op.castore, Op.sastore, Op.iastore, Op.lastore, Op.aastore} |->
     [kind |-> CASE o \in {Op.baload, Op.bastore} -> "byte"
                 [] o \in {Op.caload, Op.castore} -> "char"
                 [] o \in {Op.saload, Op.sastore} -> "short"
                 [] o \in {Op.iaload, Op.iastore} -> "int"
                 [] o \in {Op.laload, Op.lastore} -> "long"
                 [] OTHER -> "object",
      store |-> o \in {Op.bastore, Op.castore, Op.sastore, Op.iastore, Op.lastore,
                        Op.aastore}]]

\* C19: an array load or store on a null array raises NullPointerException;
\* on an array, with an index outside 0 <= index < length, it raises
\* ArrayIndexOutOfBoundsException with the message
\* "<index> not in [0,<length>]"; in both cases no object of the heap is
\* changed.  Otherwise a store sets the element to the value, cut to the
\* element's width (signed for byte and short, unsigned for char), and
\* changes nothing else of the heap, and a load pushes the element and
\* leaves the heap alone.
C19_ArrayAccess ==
  [][(/\ pc = "loop"
      /\ "NATIVE" \notin methodFlags(code)
      /\ codeBody(code, ip) \in DOMAIN ArrayOps)
     => LET op == ArrayOps[codeBody(code, ip)]
            size == IF op.kind = "long" THEN 2 ELSE 1
            operands == IF op.store THEN size + 2 ELSE 2
            array == stack[sp - operands].v
            position == stack[sp - operands + 1].v
            value == IF op.kind = "long" THEN Long(stack[sp - 2].v, stack[sp - 1].v)
                     ELSE stack[sp - 1].v
            length == Len(heap[array].fields)
            same == \A o \in DOMAIN heap : heap'[o] = heap[o]
            thrown == heap'[exception']
        IN IF array = 0
           THEN /\ exception' # 0
                /\ thrown.class = NullPointerException
                /\ same
           ELSE IF position < 0 \/ position >= length
           THEN /\ exception' # 0
                /\ thrown.class = ArrayIndexOutOfBoundsException
                /\ thrown.fields[ThrowableMessage]
                     = ToString(position) \o " not in [0," \o ToString(length) \o "]"
                /\ same
           ELSE /\ exception' = 0 /\ pc' = "loop"
                /\ IF op.store
                   THEN LET e == heap'[array].fields[position + 1]
                        IN /\ sp' = sp - operands
                           /\ \A o \in DOMAIN heap : o # array => heap'[o] = heap[o]
                           /\ \A i \in 1 .. length :
                                i # position + 1
                                => heap'[array].fields[i] = heap[array].fields[i]
                           /\ CASE op.kind = "byte" ->
                                     e \in -128 .. 127 /\ e % 256 = value % 256
                                [] op.kind = "char" ->
                                     e \in 0 .. 65535 /\ e % 65536 = value % 65536
                                [] op.kind = "short" ->
                                     e \in -32768 .. 32767 /\ e % 65536 = value % 65536
                                [] OTHER -> e = value
                   ELSE /\ heap' = heap
                        /\ sp' = sp - 2 + size
                        /\ IF op.kind = "long"
                           THEN Long(stack'[sp' - 2].v, stack'[sp' - 1].v)
                                  = heap[array].fields[position + 1]
                           ELSE stack'[sp' - 1] =
                                  [v |-> heap[array].fields[position + 1],
                                   tag |-> IF op.kind = "object" THEN 1 ELSE 0]
    ]_vars

\* Main.bytes(a, 0, 200) has stored 200 in a byte array and returned the
\* box of what it loaded back, -56.
C19_Witness ==
  /\ pc = "exit"
  /\ obs.root = MethodOf("Main", "bytes")
  /\ exception = 0
  /\ heap[obs.result] = [class |-> "Int", fields |-> << -56 >>]

\* C18: popFrame, undoing the pushFrame(m) that made the current frame
\* (balanced pushes and pops may lie between the two), leaves frame at the
\* caller's frame, code at the caller's method and ip at the ip the caller
\* had when it invoked, and sp at its value before the push less m's
\* parameter footprint; with no caller frame it leaves frame = -1, code null
\* and ip = 0.  Every frame pushed links to a previous frame below it.
C18_PushThenPop ==
  /\ \A i \in DOMAIN obs.frames : obs.frames[i].next < obs.frames[i].frame
  /\ obs.pop.n > 0
     => LET e == obs.pop.entry
            a == obs.pop.after
        IN /\ e.frame = obs.pop.popped
           /\ e.next < e.frame
           /\ a.frame = e.next
           /\ a.sp = e.sp - e.parameterFootprint
           /\ IF e.next >= 0 THEN a.code = e.code /\ a.ip = e.ip
              ELSE a.frame = -1 /\ a.code = 0 /\ a.ip = 0

\* Main.add, called by rSum with two arguments, has returned to it.
C18_Witness ==
  /\ pc = "loop"
  /\ obs.root = MethodOf("Main", "rSum")
  /\ obs.pop.n = 1
  /\ obs.pop.entry.parameterFootprint = 2
  /\ obs.pop.after.frame = frame /\ frame >= 0
  /\ obs.pop.after.ip = 5

\* C17: the invocation of a bytecode method pushes a frame exactly when
\* base + maxLocals + FrameFootprint + maxStack <= StackSizeInWords / 2,
\* base being sp less the method's parameter footprint; the frame is then at
\* base + maxLocals with sp just above it.  Otherwise StackOverflowError is
\* pending and frame, sp, ip, the thread state and the stack are as
\* they were before the attempt.
C17_FrameIffFits ==
  obs.invoke.n > 0
  => LET m == obs.invoke.method
         b == obs.invoke.before
         a == obs.invoke.after
         base == b.sp - methods[m].parameterFootprint
     IN IF base + methods[m].maxLocals + FrameFootprint + methods[m].maxStack <= StackSlots
        THEN /\ obs.invoke.exception = 0
             /\ a.frame = base + methods[m].maxLocals
             /\ a.sp = a.frame + FrameFootprint
             /\ a.stack[a.frame + FrameMethodOffset].v = m
        ELSE /\ obs.invoke.exception # 0
             /\ heap[obs.invoke.exception].class = StackOverflowError
             /\ a = b

\* The recursion of rRecurse was refused a frame and the error was caught.
C17_Witness ==
  /\ obs.root = MethodOf("Main", "rRecurse")
  /\ obs.invoke.method = MethodOf("Main", "rec")
  /\ obs.invoke.exception # 0
  /\ obs.invoke.before.frame > 1
  /\ pc = "exit" /\ exception = 0

\* C16: the native data of a bound method holds one type code per declared
\* parameter after the leading POINTER_TYPE (and the receiver's, if the
\* method is not static): methodParameterCount + 1 entries, never more than
\* the array was made for.  An array parameter contributes one POINTER_TYPE
\* entry and one word of the argument table, whose size is one word for the
\* thread and what the parameters take.
C16_OneTypePerParameter ==
  \A m \in NativeMethods :
    nativeCode[m].bound
    => LET d == nativeCode[m]
       IN /\ Len(d.parameterTypes) = methods[m].parameterCount + 1
          /\ Len(d.parameterTypes) <= d.length
          /\ d.parameterTypes[1] = "POINTER_TYPE"
          /\ d.argumentTableSize = BytesPerWord * (1 + methods[m].parameterFootprint)
          /\ methods[m].spec = "([I)V"
             => d.parameterTypes = << "POINTER_TYPE", "POINTER_TYPE" >>
          /\ methods[m].spec = "(IJLBoot;)V"
             => d.parameterTypes = << "POINTER_TYPE", "INT32_TYPE", "INT64_TYPE", "POINTER_TYPE" >>

\* C15: when no library and not the builtin map resolve the symbol of a
\* native method, invokeNative leaves UnsatisfiedLinkError pending, its
\* message the symbol's name; frame, sp, the thread state and the stack are
\* as they were when invokeNative was entered (no frame was pushed), no
\* native function of the method is in progress, the method's code slot
\* holds the symbol still, and every invocation made so far looked it up.
C15_UnresolvedSymbol ==
  obs.unbound.n > 0
  => LET m == obs.unbound.method
         e == heap[obs.unbound.exception]
     IN /\ e.class = UnsatisfiedLinkError
        /\ e.fields[ThrowableMessage] = "Java_" \o methods[m].class \o "_" \o methods[m].name
        /\ obs.unbound.after = obs.unbound.before
        /\ \A i \in DOMAIN cstack : cstack[i].method # m
        /\ nativeCode[m] = Symbol(e.fields[ThrowableMessage])
        /\ obs.lookups[m] = obs.unbound.n

\* rNativeAgain has invoked the unresolved Main.nat a second time.
C15_Witness ==
  /\ obs.root = MethodOf("Main", "rNativeAgain")
  /\ obs.unbound.n = 2
  /\ obs.unbound.method = MethodOf("Main", "nat")
  /\ obs.unbound.before.frame = 1
  /\ pc = "exit"

\* C14: a bound native method holds the function of the first library of the
\* chain that resolves its symbol, with the builtin flag false, whether or
\* not the builtin map has the symbol too; if no library resolves it, it
\* holds the builtin map's function with the flag true.  The binding was made
\* by one lookup, whatever the number of invocations since.
C14_FirstHitMemoized ==
  \A m \in NativeMethods :
    nativeCode[m].bound
    => LET hits == { i \in 1 .. NumLibraries : symbols.libraries[i] }
       IN /\ obs.lookups[m] = 1
          /\ IF hits # {}
             THEN /\ nativeCode[m].function \in hits
                  /\ \A i \in hits : nativeCode[m].function <= i
                  /\ ~nativeCode[m].builtin
             ELSE /\ symbols.builtin
                  /\ nativeCode[m].function = 0
                  /\ nativeCode[m].builtin

\* The second call of rNativeAgain has returned: the symbol is in the second
\* library and in the builtin map, and the method is bound to the library's.
C14_Witness ==
  /\ pc = "loop"
  /\ obs.root = MethodOf("Main", "rNativeAgain")
  /\ frame = 1 /\ ip = 7 /\ exception = 0
  /\ symbols.libraries = << FALSE, TRUE >> /\ symbols.builtin
  /\ nativeCode[MethodOf("Main", "nat")].bound
  /\ nativeCode[MethodOf("Main", "nat")].function = 2
  /\ ~nativeCode[MethodOf("Main", "nat")].builtin
  /\ obs.lookups[MethodOf("Main", "nat")] = 1

\* C13: while a native function runs, the thread is in IdleState if the
\* function came from a library and in the state invokeNative found it in if
\* the function is a builtin; when invokeNative returns, with or without an
\* exception pending, the thread is in the state invokeNative found it in.
C13_NativeThreadState ==
  [][pc = "native"
     => LET call == cstack[Len(cstack)]
        IN /\ state = IF call.builtin THEN call.oldState ELSE "Idle"
           /\ Len(cstack') < Len(cstack) => state' = call.oldState
    ]_vars

\* A library function called in ExclusiveState has returned with an
\* exception pending.
C13_Witness ==
  /\ pc = "exit"
  /\ obs.root = MethodOf("Main", "nat")
  /\ nativeCode[obs.root].bound /\ ~nativeCode[obs.root].builtin
  /\ exception # 0
  /\ state = "Exclusive"

\* The slots a return instruction pops as its result.
resultSize(instruction) ==
  CASE instruction = Op.lreturn -> 2
    [] instruction = Op.return_ -> 0
    [] OTHER -> 1

\* C12: a return instruction (return, ireturn, lreturn, areturn) pops the
\* current frame and leaves sp at that frame's base.  If a caller frame
\* remains, the result (0, 1 or 2 slots) is pushed on the caller's operand
\* stack, with the tag of its kind, and the loop goes on at the caller's
\* saved method and ip.  If no frame remains, the loop returns the result
\* (an Int or Long box of the value, the object itself, or null for return),
\* code is null, ip is 0 and sp is 0, its value before the launcher pushed
\* the arguments.
C12_ReturnPopsFrame ==
  [][(/\ pc = "loop"
      /\ "NATIVE" \notin methodFlags(code)
      /\ codeBody(code, ip) \in {Op.return_, Op.ireturn, Op.lreturn, Op.areturn}
      /\ pc' # "undefined")
     => LET instruction == codeBody(code, ip)
            size == resultSize(instruction)
            base == stack[frame + FrameBaseOffset].v
            next == stack[frame + FrameNextOffset].v
            tag == IF instruction = Op.areturn THEN 1 ELSE 0
        IN /\ frame' = next
           /\ IF next >= 0
              THEN /\ pc' = "loop"
                   /\ sp' = base + size
                   /\ \A i \in 0 .. size - 1 :
                        stack'[base + i] = [v |-> stack[sp - size + i].v, tag |-> tag]
                   /\ code' = stack[next + FrameMethodOffset].v
                   /\ ip' = stack[next + FrameIpOffset].v
              ELSE /\ pc' = "exit"
                   /\ sp' = base /\ sp' = 0
                   /\ code' = 0 /\ ip' = 0
                   /\ CASE instruction = Op.ireturn ->
                             heap'[obs'.result] = [class |-> "Int", fields |-> << stack[sp - 1].v >>]
                        [] instruction = Op.lreturn ->
                             heap'[obs'.result] =
                               [class |-> "Long",
                                fields |-> << Long(stack[sp - 2].v, stack[sp - 1].v) >>]
                        [] instruction = Op.areturn -> obs'.result = stack[sp - 1].v
                        [] OTHER -> obs'.result = 0
    ]_vars

\* Main.add(7, 1), called by the launcher, has returned the box of 8.
C12_Witness ==
  /\ pc = "exit"
  /\ obs.root = MethodOf("Main", "add")
  /\ sp = 0 /\ frame = -1
  /\ heap[obs.result] = [class |-> "Int", fields |-> << 8 >>]

\* C11: what is printed for an uncaught exception has one header per exception
\* of its cause chain, in chain order; the header of each shows the class name
\* and the message of that exception itself and is followed by its own trace;
\* the first is introduced by "uncaught exception: ", the others by
\* "caused by: ".
C11_HeaderPerCause ==
  pc \in {"exit", "done"} /\ obs.unwind.uncaught =>
    /\ Len(stderr) = Len(causes(exception))
    /\ \A i \in 1 .. Len(stderr) :
         LET e == causes(exception)[i]
         IN /\ stderr[i].intro = (IF i = 1 THEN "uncaught exception: " ELSE "caused by: ")
            /\ stderr[i].class = heap[e].class
            /\ stderr[i].message = heap[e].fields[ThrowableMessage]
            /\ stderr[i].trace = heap[e].fields[ThrowableTrace]

\* C10: the top-level run returns -1 exactly when the exception slot is
\* non-null after the root invocation ended and 0 otherwise, and an exception
\* no frame handled is still in the slot then.
C10_ExitCode ==
  /\ pc \in {"exit", "done"} /\ obs.unwind.uncaught => exception # 0
  /\ pc = "done" =>
       /\ exitCode = (IF exception # 0 THEN -1 ELSE 0)
       /\ exitCode = -1 <=> obs.unwind.uncaught

\* C10 witness: the run has returned -1 after an exception nobody caught.
C10_Witness == pc = "done" /\ exitCode = -1 /\ obs.unwind.uncaught

\* C21: iushr is a logical shift: for every int a and count b in 0..31 it
\* pops both and pushes a's 32 bits moved right by b places with zeros
\* filling from the left, so a negative a with b > 0 gives a result >= 0.
C21_LogicalShift ==
  [][(/\ pc = "loop"
      /\ "NATIVE" \notin methodFlags(code)
      /\ codeBody(code, ip) = Op.iushr
      /\ stack[sp - 1].v \in 0 .. 31)
     => LET b == stack[sp - 1].v
            a == stack[sp - 2].v
        IN /\ pc' = "loop"
           /\ sp' = sp - 1
           /\ stack'[sp' - 1] = IntSlot(shr32(a, b))
           /\ (a < 0 /\ b > 0) => stack'[sp' - 1].v >= 0
    ]_vars

\* C22: bipush pushes its one-byte immediate sign-extended from 8 to 32 bits
\* and sipush its two-byte big-endian immediate sign-extended from 16 to 32
\* bits: the immediates 0x80..0xFF and 0x8000..0xFFFF push negative ints.
C22_SignExtendedImmediate ==
  [][(/\ pc = "loop"
      /\ "NATIVE" \notin methodFlags(code)
      /\ codeBody(code, ip) \in {Op.bipush, Op.sipush})
     => LET short == codeBody(code, ip) = Op.sipush
            immediate == IF short
                         THEN codeBody(code, ip + 1) * TwoTo8 + codeBody(code, ip + 2)
                         ELSE codeBody(code, ip + 1)
            extended == IF short
                        THEN (IF immediate >= 32768 THEN immediate - 65536 ELSE immediate)
                        ELSE (IF immediate >= 128 THEN immediate - 256 ELSE immediate)
        IN /\ pc' = "loop"
           /\ ip' = ip + (IF short THEN 3 ELSE 2)
           /\ sp' = sp + 1
           /\ stack'[sp] = IntSlot(extended)
    ]_vars

\* C23: iinc adds its one-byte immediate, taken as a signed 8-bit value, to
\* the local at its one-byte index; under the wide prefix it adds its two-byte
\* immediate, taken as a signed 16-bit value, to the local at its two-byte
\* index, so the immediate 0xFFFF decrements the local by 1.
C23_SignedIncrement ==
  [][(/\ pc = "loop"
      /\ "NATIVE" \notin methodFlags(code)
      /\ \/ codeBody(code, ip) = Op.iinc
         \/ codeBody(code, ip) = Op.wide /\ codeBody(code, ip + 1) = Op.iinc)
     => LET prefixed == codeBody(code, ip) = Op.wide
            byte(i) == codeBody(code, ip + i)
            position == IF prefixed THEN byte(2) * TwoTo8 + byte(3) ELSE byte(1)
            immediate == IF prefixed THEN byte(4) * TwoTo8 + byte(5) ELSE byte(2)
            count == IF prefixed
                     THEN (IF immediate >= 32768 THEN immediate - 65536 ELSE immediate)
                     ELSE (IF immediate >= 128 THEN immediate - 256 ELSE immediate)
            local == stack[frame + FrameBaseOffset].v + position
        IN /\ pc' = "loop"
           /\ ip' = ip + (IF prefixed THEN 6 ELSE 3)
           /\ sp' = sp
           /\ stack' = [stack EXCEPT ![local] = IntSlot(add32(stack[local].v, count))]
    ]_vars

\* The branching opcodes: the relation a conditional one tests and the number
\* of operands it pops.
Branches ==
  (Op.ifeq :> << "eq", 1 >>) @@ (Op.ifne :> << "ne", 1 >>) @@ (Op.iflt :> << "lt", 1 >>)
  @@ (Op.ifge :> << "ge", 1 >>) @@ (Op.ifgt :> << "gt", 1 >>) @@ (Op.ifle :> << "le", 1 >>)
  @@ (Op.if_icmpeq :> << "eq", 2 >>) @@ (Op.if_icmpne :> << "ne", 2 >>)
  @@ (Op.if_icmplt :> << "lt", 2 >>) @@ (Op.if_icmpge :> << "ge", 2 >>)
  @@ (Op.if_icmpgt :> << "gt", 2 >>) @@ (Op.if_icmple :> << "le", 2 >>)
  @@ (Op.if_acmpeq :> << "eq", 2 >>) @@ (Op.if_acmpne :> << "ne", 2 >>)
  @@ (Op.ifnull :> << "eq", 1 >>) @@ (Op.ifnonnull :> << "ne", 1 >>)
  @@ (Op.goto_ :> << "always", 0 >>) @@ (Op.jsr :> << "always", 0 >>)
  @@ (Op.goto_w :> << "always", 0 >>) @@ (Op.jsr_w :> << "always", 0 >>)

\* C24: every branching opcode that branches sets ip to the address of the
\* opcode itself plus its signed offset, of 16 bits (goto, jsr, if*, if_icmp*,
\* if_acmp*, ifnull, ifnonnull) or of 32 bits (goto_w, jsr_w); jsr and jsr_w
\* first push the address of the following instruction (the opcode's address
\* plus 3, plus 5 for jsr_w); a conditional that does not branch goes on at
\* the opcode's address plus 3.
C24_BranchTarget ==
  [][(/\ pc = "loop"
      /\ "NATIVE" \notin methodFlags(code)
      /\ codeBody(code, ip) \in DOMAIN Branches)
     => LET instruction == codeBody(code, ip)
            relation == Branches[instruction][1]
            operands == Branches[instruction][2]
            byte(i) == codeBody(code, ip + i)
            long == instruction \in {Op.goto_w, Op.jsr_w}
            offset == IF long
                      THEN (IF byte(1) >= 128 THEN byte(1) - 256 ELSE byte(1)) * 16777216
                           + byte(2) * 65536 + byte(3) * 256 + byte(4)
                      ELSE (IF byte(1) >= 128 THEN byte(1) - 256 ELSE byte(1)) * 256 + byte(2)
            b == IF operands = 0 THEN 0 ELSE stack[sp - 1].v
            a == IF operands = 2 THEN stack[sp - 2].v ELSE 0
            taken == IF operands = 0 THEN TRUE
                     ELSE IF operands = 1 THEN compare(relation, b, 0)
                     ELSE compare(relation, a, b)
            link == instruction \in {Op.jsr, Op.jsr_w}
        IN /\ pc' = "loop"
           /\ ip' = IF taken THEN ip + offset ELSE ip + 3
           /\ sp' = IF link THEN sp + 1 ELSE sp - operands
           /\ link => stack'[sp] = IntSlot(ip + (IF long THEN 5 ELSE 3))
    ]_vars

\* C25: when new makes an instance of a class that has WeakReferenceFlag, the
\* instance is the head of the VM's chain of weak references right after and
\* its next link is the head the chain had before; making an instance of any
\* other class, and every other step, leaves the chain as it was.
C25_WeakReferenceChain ==
  [][LET made == /\ pc = "loop"
                 /\ "NATIVE" \notin methodFlags(code)
                 /\ codeBody(code, ip) = Op.new_
                 /\ pc' = "loop" /\ code' = code /\ exception' = 0
                 /\ sp' = sp + 1
                 /\ Len(heap') = Len(heap) + 1
         instance == stack'[sp].v
     IN IF made /\ WeakReferenceFlag \in classes[heap'[instance].class].flags
        THEN /\ weakReferences' = instance
             /\ instance = Len(heap')
             /\ heap'[instance].fields[JreferenceNext] = weakReferences
        ELSE weakReferences' = weakReferences
    ]_vars

\* C25 witness: the head of the chain is an instance of the weak-reference
\* class whose next link is an earlier instance of it.
C25_Witness ==
  /\ weakReferences # 0
  /\ heap[weakReferences].class = "Weak"
  /\ heap[weakReferences].fields[JreferenceNext] # 0
  /\ heap[heap[weakReferences].fields[JreferenceNext]].class = "Weak"

\* C26: invokespecial on a non-null receiver invokes the entry of the
\* superclass's virtual table at the method's offset if and only if the
\* running method's class has ACC_SUPER, the method is not named <init> and
\* the method's class is a proper superclass of the running method's class
\* (the superclass being loaded and initialized first where it was not); in
\* every other case it invokes the statically resolved method itself.  On a
\* null receiver it leaves a NullPointerException and pushes no frame.
C26_InvokeSpecial ==
  [][(/\ pc = "loop"
      /\ "NATIVE" \notin methodFlags(code)
      /\ codeBody(code, ip) = Op.invokespecial
      /\ pool'[methodClass(code)][codeBody(code, ip + 1) * TwoTo8
                                   + codeBody(code, ip + 2)].tag = "Method")
     => LET slot == codeBody(code, ip + 1) * TwoTo8 + codeBody(code, ip + 2)
            method == methodOf(pool'[methodClass(code)][slot])
            receiver == stack[sp - methods[method].parameterFootprint].v
            class == methodClass(stack[frame + FrameMethodOffset].v)
            super == classSuper(class)
            special == /\ "SUPER" \in classes[class].flags
                       /\ methods[method].name # "<init>"
                       /\ class # methodClass(method)
                       /\ extends(class, methodClass(method))
            target == IF special
                      THEN classes[super].virtualTable[methods[method].offset + 1]
                      ELSE method
            invoked == obs'.invoke.n = obs.invoke.n + 1
        IN IF receiver = 0
           THEN /\ obs'.invoke = obs.invoke
                /\ Len(heap') = Len(heap) + 1
                /\ heap'[Len(heap')].class = NullPointerException
           ELSE \/ invoked /\ obs'.invoke.method = target
                \/ /\ invoked /\ special /\ ~virtualTable[super]
                   /\ initializer[super] # 0
                   /\ obs'.invoke.method = initializer[super]
                \/ /\ obs'.invoke = obs.invoke /\ special /\ ~virtualTable[super]
                   /\ super \notin classPath
    ]_vars

\* C26 witness: Boot.m, the entry of the virtual table of Sub's superclass,
\* runs in a frame pushed by Sub.up, whose invokespecial names Base.m.
C26_Witness ==
  /\ pc = "loop"
  /\ code = MethodOf("Boot", "m")
  /\ frame >= 0
  /\ stack[frame + FrameNextOffset].v >= 0
  /\ stack[stack[frame + FrameNextOffset].v + FrameMethodOffset].v = MethodOf("Sub", "up")

resolution ==
  LET symbolic == classes[resolvers.slot[1]].pool[resolvers.slot[2]]
  IN IF symbolic.class \notin classPath THEN NullEntry
     ELSE IF resolvers.kind = "Class" THEN [symbolic EXCEPT !.tag = "Class"]
     ELSE findInChain(symbolic.class, symbolic, resolvers.kind)

\* C28: when two threads resolve the same pool slot at the same time,
\* interleaved at every read and write of the slot, and the class, field or
\* method the slot names exists, each of them obtains the entry one thread
\* alone would have resolved, the slot holds that entry once a thread has
\* returned, none of them reads a resolved entry as a symbolic Reference, and
\* none reports a NoSuchFieldError or NoSuchMethodError.
C28_ConcurrentResolution ==
  resolution # NullEntry =>
    \A t \in DOMAIN resolvers.thread :
      /\ ~resolver(t).misread
      /\ resolver(t).at # "undefined"
      /\ resolver(t).at = "done"
         => /\ resolver(t).o = resolution
            /\ resolver(t).exception = ""
            /\ slotEntry = resolution

\* The two top slots of the operand stack, both words of each.
top2(s) == << s.stack[s.sp - 2], s.stack[s.sp - 1] >>

\* The loop is about to run dup then swap, or swap then dup.
DupSwapNext ==
  /\ pc = "loop"
  /\ "NATIVE" \notin methodFlags(code)
  /\ codeBody(code, ip) \in {Op.dup, Op.swap}
  /\ ip + 2 <= Len(methods[code].body)
  /\ codeBody(code, ip + 1) \in {Op.dup, Op.swap} \ {codeBody(code, ip)}

\* C29: for any two top slots (x, y), dup then swap leaves the same top two
\* slots, value and tag words, as swap then dup.
C29_DupSwapCommute ==
  DupSwapNext => top2(swap(dup(Cur))) = top2(dup(swap(Cur)))

\* C29, as the code has it: with x under y on top, dup then swap leaves y in
\* both top slots and swap then dup leaves x in both, value and tag words;
\* the two agree exactly when x and y are the same slot contents.  Each of the
\* two opcodes, when the loop runs it, does to the stack what is composed here.
C29_DupSwapTops ==
  [][/\ DupSwapNext
        => LET x == stack[sp - 2]
               y == stack[sp - 1]
           IN /\ top2(swap(dup(Cur))) = << y, y >>
              /\ top2(dup(swap(Cur))) = << x, x >>
              /\ swap(dup(Cur)).sp = sp + 1 /\ dup(swap(Cur)).sp = sp + 1
              /\ top2(swap(dup(Cur))) = top2(dup(swap(Cur))) <=> x = y
     /\ (pc = "loop" /\ "NATIVE" \notin methodFlags(code)
         /\ codeBody(code, ip) \in {Op.dup, Op.swap})
        => LET after == IF codeBody(code, ip) = Op.dup THEN dup(Cur) ELSE swap(Cur)
           IN stack' = after.stack /\ sp' = after.sp /\ ip' = ip + 1 /\ pc' = "loop"
    ]_vars

\* C29 witness: dup then swap have just run on an object under an int: the
\* int is in both top slots and the object is below them.
C29_Witness ==
  /\ pc = "loop"
  /\ ip >= 2
  /\ codeBody(code, ip - 2) = Op.dup /\ codeBody(code, ip - 1) = Op.swap
  /\ stack[sp - 1] = IntSlot(1) /\ stack[sp - 2] = IntSlot(1)
  /\ stack[sp - 3].tag = 1

\* -a in the 64 bits of a long, wrapping.
neg64(a) ==
  IF a.lo = 0
  THEN Long(IF a.hi = MinInt32 THEN MinInt32 ELSE - a.hi, 0)
  ELSE Long(- a.hi - 1, IF a.lo = MinInt32 THEN MinInt32 ELSE - a.lo)

\* The long a shifted as the opcode says by the low six bits of the count.
shifted(instruction, a, count) ==
  IF instruction = Op.lshl THEN shl64(a, count % 64)
  ELSE shr64(a, count % 64, instruction = Op.lshr)

\* C30: lneg pops one long (two slots) and pushes its negation, so sp is as it
\* was; lshl, lshr and lushr pop an int count (one slot), then a long (two
\* slots), and push the shifted long, so sp is one slot lower.
C30_LongNegateAndShift ==
  [][(/\ pc = "loop"
      /\ "NATIVE" \notin methodFlags(code)
      /\ codeBody(code, ip) \in {Op.lneg, Op.lshl, Op.lshr, Op.lushr})
     => /\ pc' = "loop"
        /\ IF codeBody(code, ip) = Op.lneg
           THEN /\ sp' = sp
                /\ Long(stack'[sp - 2].v, stack'[sp - 1].v)
                     = neg64(Long(stack[sp - 2].v, stack[sp - 1].v))
           ELSE /\ sp' = sp - 1
                /\ Long(stack'[sp - 3].v, stack'[sp - 2].v)
                     = shifted(codeBody(code, ip),
                               Long(stack[sp - 3].v, stack[sp - 2].v),
                               stack[sp - 1].v)
    ]_vars

\* C30 without lneg and without the count being popped as a long: a shift
\* that goes on pushes the long it computed from the two longs it popped.
C30_ShiftOfTwoLongs ==
  [][(/\ pc = "loop"
      /\ "NATIVE" \notin methodFlags(code)
      /\ codeBody(code, ip) \in {Op.lshl, Op.lshr, Op.lushr}
      /\ pc' = "loop")
     => /\ sp' = sp - 2
        /\ Long(stack'[sp - 4].v, stack'[sp - 3].v)
             = shifted(codeBody(code, ip),
                       Long(stack[sp - 4].v, stack[sp - 3].v),
                       stack[sp - 1].v)
    ]_vars

\* What a stack-manipulation opcode is to do: it takes the n top slots and
\* leaves the slots arrangement[1], ..., numbered from the lowest of the n.
Permutation(instruction) ==
  CASE instruction = Op.dup -> [n |-> 1, arrangement |-> <<1, 1>>]
    [] instruction = Op.dup_x1 -> [n |-> 2, arrangement |-> <<2, 1, 2>>]
    [] instruction = Op.dup_x2 -> [n |-> 3, arrangement |-> <<3, 1, 2, 3>>]
    [] instruction = Op.dup2 -> [n |-> 2, arrangement |-> <<1, 2, 1, 2>>]
    [] instruction = Op.dup2_x1 -> [n |-> 3, arrangement |-> <<2, 3, 1, 2, 3>>]
    [] instruction = Op.dup2_x2 -> [n |-> 4, arrangement |-> <<3, 4, 1, 2, 3, 4>>]
    [] instruction = Op.swap -> [n |-> 2, arrangement |-> <<2, 1>>]

StackOps == {Op.dup, Op.dup_x1, Op.dup_x2, Op.dup2, Op.dup2_x1, Op.dup2_x2, Op.swap}

\* The step of the opcode at ip leaves the arrangement p of the slots (value
\* and tag words) on the stack and every slot below them as it was.
Permuted(p) ==
  /\ pc' = "loop"
  /\ sp' = sp - p.n + Len(p.arrangement)
  /\ \A i \in 1 .. Len(p.arrangement) :
       stack'[sp - p.n + i - 1] = stack[sp - p.n + p.arrangement[i] - 1]
  /\ \A i \in 0 .. (sp - p.n - 1) : stack'[i] = stack[i]

\* C31: dup, dup_x1, dup_x2, dup2, dup2_x1, dup2_x2 and swap each leave the
\* standard permutation of the top slots, value and tag words together, and
\* every slot below them untouched; after dup2 every slot below the new sp
\* holds a copy.
C31_StackPermutations ==
  [][(/\ pc = "loop"
      /\ "NATIVE" \notin methodFlags(code)
      /\ codeBody(code, ip) \in StackOps)
     => Permuted(Permutation(codeBody(code, ip)))]_vars

\* C31 without dup2: the other six opcodes leave their permutation.
C31_AllButDup2 ==
  [][(/\ pc = "loop"
      /\ "NATIVE" \notin methodFlags(code)
      /\ codeBody(code, ip) \in StackOps \ {Op.dup2})
     => Permuted(Permutation(codeBody(code, ip)))]_vars

\* The class named by the pool index that follows the opcode at ip.
OperandClass ==
  pool[methodClass(code)][codeBody(code, ip + 1) * TwoTo8 + codeBody(code, ip + 2)].class

\* The loop is about to run instruction on a class the class path holds.
TypeTestNext(instruction) ==
  /\ pc = "loop"
  /\ "NATIVE" \notin methodFlags(code)
  /\ codeBody(code, ip) = instruction
  /\ OperandClass \in classPath

\* C32: instanceof replaces the reference on top of the stack by 1 if it is
\* non-null and an instance of the resolved class and by 0 otherwise, so sp is
\* as it was; checkcast leaves the reference on the stack when it succeeds,
\* and null always succeeds.
C32_TypeTests ==
  [][/\ TypeTestNext(Op.instanceof)
        => /\ pc' = "loop"
           /\ sp' = sp
           /\ stack'[sp - 1]
                = IntSlot(IF instanceOf(Cur, OperandClass, stack[sp - 1].v) THEN 1 ELSE 0)
     /\ (TypeTestNext(Op.checkcast)
         /\ (stack[sp - 1].v = 0 \/ instanceOf(Cur, OperandClass, stack[sp - 1].v)))
        => /\ pc' = "loop" /\ ip' = ip + 3 /\ exception' = 0
           /\ sp' = sp /\ stack' = stack
    ]_vars

\* C32, as far as the code has it: instanceof pushes its result above the
\* reference it tested, and checkcast either leaves the stack as it was or
\* throws a ClassCastException, that only for a non-null reference that is no
\* instance of the class.
C32_PeekedTypeTests ==
  [][/\ TypeTestNext(Op.instanceof)
        => /\ pc' = "loop"
           /\ sp' = sp + 1
           /\ stack'[sp - 1] = stack[sp - 1]
           /\ stack'[sp]
                = IntSlot(IF instanceOf(Cur, OperandClass, stack[sp - 1].v) THEN 1 ELSE 0)
     /\ TypeTestNext(Op.checkcast)
        => IF stack[sp - 1].v = 0 \/ instanceOf(Cur, OperandClass, stack[sp - 1].v)
           THEN /\ pc' = "loop" /\ ip' = ip + 3 /\ exception' = 0
                /\ sp' = sp /\ stack' = stack
           ELSE /\ obs'.unwind.thrown # 0
                /\ heap'[obs'.unwind.thrown].class = ClassCastException
    ]_vars

\* popFrame has just popped the frame of a synchronized instance method that
\* pushFrame had pushed.
SynchronizedFramePopped ==
  /\ obs.pop.n > 0
  /\ obs.pop.entry.frame = obs.pop.popped
  /\ "SYNCHRONIZED" \in methodFlags(obs.pop.entry.method)
  /\ "STATIC" \notin methodFlags(obs.pop.entry.method)

\* C33: the object whose monitor popFrame releases for the frame of a
\* synchronized instance method is the object whose monitor pushFrame acquired
\* for that frame, whatever the method stored into local 0 in between.
C33_ReleasesWhatItAcquired ==
  SynchronizedFramePopped => obs.pop.released = obs.pop.entry.acquired

\* C33 for the methods that leave local 0 alone (all but K.so): what is
\* released is what was acquired.
C33_UntouchedLocal ==
  (SynchronizedFramePopped /\ methods[obs.pop.entry.method].name # "so")
    => obs.pop.released = obs.pop.entry.acquired

\* C34: the initializer slot of a class that has a <clinit> is null only if a
\* frame of that <clinit> has been pushed before: an invocation of <clinit>
\* that is refused does not lose the initializer.
C34_InitializerNotLost ==
  \A c \in ClassNames :
    (classes[c].initializer # 0 /\ initializer[c] = 0) => obs.clinit[c] > 0

\* C34 where no invocation was refused and no virtual or special call met
\* an initializer: a null slot means <clinit> has started.
C34_UnrefusedInitializer ==
  \A c \in ClassNames \ {"Base", "Boot"} :
    (classes[c].initializer # 0 /\ initializer[c] = 0 /\ c \notin obs.refused)
      => obs.clinit[c] > 0

\* C35: the loop never fetches an opcode while the method of the current
\* frame is native: a method the launcher was called on from inside a native
\* call hands its result back to the launcher's caller when it returns.
C35_NoFetchInNativeFrame ==
  pc = "loop" =>
    /\ frame >= 0
    /\ "NATIVE" \notin methodFlags(stack[frame + FrameMethodOffset].v)
    /\ "NATIVE" \notin methodFlags(code)

\* The method the Reference after the opcode at ip names, and the receiver
\* of a call of it.
OperandMethod ==
  LET e == pool[methodClass(code)][codeBody(code, ip + 1) * TwoTo8 + codeBody(code, ip + 2)]
  IN methodOf([class |-> e.class, name |-> e.name, spec |-> e.spec])

Receiver == stack[sp - methods[OperandMethod].parameterFootprint].v

\* The dispatch-array entry for method of the nearest class, from oc up, whose
\* interface table lists the interface of method.
RECURSIVE InterfaceEntry(_, _)
InterfaceEntry(oc, method) ==
  LET itable == classes[oc].interfaceTable
      listed == { i \in 1 .. Len(itable) : itable[i].interface = methodClass(method) }
  IN IF listed = {} THEN InterfaceEntry(classSuper(oc), method)
     ELSE itable[CHOOSE i \in listed : TRUE].methods[methods[method].offset + 1]

\* The loop is about to run invokeinterface on a non-null receiver that is an
\* instance of the interface, which the class path holds.
InterfaceCallNext ==
  /\ pc = "loop"
  /\ "NATIVE" \notin methodFlags(code)
  /\ codeBody(code, ip) = Op.invokeinterface
  /\ methodClass(OperandMethod) \in classPath
  /\ Receiver # 0
  /\ instanceOf(Cur, methodClass(OperandMethod), Receiver)

\* C36: for a method of an interface I and a non-null object that is an
\* instance of I, also when only a superclass of its class lists I in its
\* interface table, findInterfaceMethod gives the dispatch-array entry at the
\* method's offset and does not abort.
C36_InterfaceDispatch ==
  [][InterfaceCallNext
       => /\ pc' = "loop"
          /\ code' = InterfaceEntry(heap[Receiver].class, OperandMethod)
          /\ frame' > frame
    ]_vars

\* C36 for an object whose own class lists the interface.
C36_DirectInterface ==
  [][(/\ InterfaceCallNext
      /\ \E i \in 1 .. Len(classes[heap[Receiver].class].interfaceTable) :
           classes[heap[Receiver].class].interfaceTable[i].interface
             = methodClass(OperandMethod))
       => /\ pc' = "loop"
          /\ code' = InterfaceEntry(heap[Receiver].class, OperandMethod)
          /\ frame' > frame
    ]_vars

\* C37: with two threads that run getstatic, putstatic, new or invokestatic on
\* the same uninitialized class K, K.<clinit> is entered at most once in all
\* and no thread does what its instruction does to K (the read or the write of
\* the static field, the instance, the call) while a thread is inside
\* K.<clinit>.
C37_InitializedOnce ==
  /\ initializers.runs <= 1
  /\ initializers.early = {}

\* The chain of weak references from o on, at most n links of it: the
\* instances in the order the links give, then 0 if the chain ended.
RECURSIVE chain(_, _)
chain(o, n) ==
  IF o = 0 THEN << 0 >>
  ELSE IF n = 0 THEN << >>
  ELSE << o >> \o chain(heap[o].fields[JreferenceNext], n - 1)

\* The instances whose registration is over: made of a class with
\* WeakReferenceFlag by a thread that has written the head since.
Registered ==
  { m.instance : m \in { m \in registrars.made :
      /\ WeakReferenceFlag \in classes[heap[m.instance].class].flags
      /\ ~ /\ registrar(m.thread).r = m.instance
           /\ registrar(m.thread).at \in {"acquire", "link", "head"} } }

\* C39: when several threads make instances of classes with WeakReferenceFlag
\* at the same time, every instance whose registration is over is in the
\* chain of weak references exactly once, and the chain has no cycle and ends
\* in null: it reaches 0 within as many links as there are objects.
C39_NoRegistrationLost ==
  LET links == chain(weakReferences, Len(heap))
  IN /\ links # << >> /\ links[Len(links)] = 0
     /\ \A i, j \in 1 .. Len(links) : links[i] = links[j] => i = j
     /\ \A o \in Registered : \E i \in 1 .. Len(links) : links[i] = o
     /\ \A i \in 1 .. Len(links) - 1 : \E m \in registrars.made : m.instance = links[i]

\* C39 witness: the chain holds instances that different threads registered,
\* and a thread waits for the lock that another holds between its read of
\* the head and its write of it.
C39_Witness ==
  /\ \E m, n \in registrars.made :
       /\ m.thread # n.thread
       /\ {m.instance, n.instance} \subseteq Registered
  /\ \E t, u \in Threads :
       /\ registrar(t).at = "acquire"
       /\ registrars.referenceLock = u
       /\ registrar(u).at = "head"

\* The unwinder ran in the step: it tested frame at least once.
Unwound == pc = "loop" /\ obs'.unwind.walk # << >>

\* How a step that ran the unwinder ends, by the three ways the frame walk
\* is over: a handler was entered and no exception is pending; or a native
\* frame was reached, the loop has returned with the exception pending and
\* that frame current; or frame is -1, the exception was reported as uncaught
\* and is still pending.  The frames tested are strictly decreasing.
UnwinderOutcome ==
  LET walk == obs'.unwind.walk
      entered == /\ pc' = "loop" /\ obs'.unwind.now /\ exception' = 0
                 /\ frame' = walk[Len(walk)] /\ frame' >= 0
      native == /\ pc' \in {"native", "exit"} /\ ~obs'.unwind.now /\ exception' # 0
                /\ frame' = walk[Len(walk)] /\ frame' >= 0
                /\ "NATIVE" \in methodFlags(stack'[frame' + FrameMethodOffset].v)
                /\ ~obs'.unwind.uncaught
      uncaught == /\ pc' \in {"native", "exit"} /\ ~obs'.unwind.now /\ exception' # 0
                  /\ frame' = -1 /\ walk[Len(walk)] = -1
                  /\ obs'.unwind.uncaught
                  /\ stderr' # stderr
  IN /\ \A i \in 1 .. Len(walk) - 1 : walk[i + 1] < walk[i]
     /\ \/ entered /\ ~native /\ ~uncaught
        \/ native /\ ~entered /\ ~uncaught
        \/ uncaught /\ ~entered /\ ~native

\* C38: the unwinder always ends, and the frames it visits are strictly
\* decreasing: a step that enters it with an exception pending ends with the
\* frame walk over in exactly one of three ways, a handler entered, a native
\* frame reached or the exception reported as uncaught.
C38_UnwinderEnds == [][Unwound => UnwinderOutcome]_vars

\* The same for the walks that hand no resolved pool slot to
\* resolveClass(t, spec) as a class name.
C38_EndsWithSymbolicCatch == [][Unwound /\ pc' # "undefined" => UnwinderOutcome]_vars

\* The class a handler of method m names as its catch type, as the class file
\* has it, or "" for a catch-any.
CatchClass(m, eh) ==
  IF eh.catchType = 0 THEN "" ELSE classes[methodClass(m)].pool[eh.catchType].class

\* Entry e of the history matches: its range holds the position tested and it
\* catches any exception or a class the thrown exception is an instance of.
Matches(e) ==
  LET m == stack[e.frame + FrameMethodOffset].v
      eh == methods[m].eht[e.entry]
      thrown == heap'[obs'.unwind.thrown].class
  IN /\ eh.start <= e.at /\ e.at < eh.end
     /\ \/ CatchClass(m, eh) = ""
        \/ IF "INTERFACE" \in classes[CatchClass(m, eh)].flags
           THEN implements(thrown, CatchClass(m, eh))
           ELSE extends(thrown, CatchClass(m, eh))

\* The entries examined follow the frames outwards and, within a frame, the
\* table: the first is entry 1 of the first frame walked that has a table,
\* and each next one is the next entry of the same frame or, the table being
\* through, entry 1 of the next frame walked that has entries.
InTableOrder ==
  LET walk == obs'.unwind.walk
      tried == obs'.unwind.tried
      table(f) == methods[stack[f + FrameMethodOffset].v].eht
      position(f) == CHOOSE i \in 1 .. Len(walk) : walk[i] = f
      skipped(i, j) == \A k \in (i + 1) .. (j - 1) : walk[k] >= 0 => table(walk[k]) = << >>
  IN /\ tried # << >> =>
          /\ tried[1].entry = 1
          /\ skipped(0, position(tried[1].frame))
     /\ \A k \in 1 .. Len(tried) - 1 :
          \/ /\ tried[k + 1].frame = tried[k].frame
             /\ tried[k + 1].entry = tried[k].entry + 1
          \/ /\ tried[k].entry = Len(table(tried[k].frame))
             /\ tried[k + 1].entry = 1
             /\ position(tried[k + 1].frame) > position(tried[k].frame)
             /\ skipped(position(tried[k].frame), position(tried[k + 1].frame))

\* The position an entry's range is tested against: the ip saved at the throw
\* for the frame that was current, the ip the frame saved when it invoked for
\* an outer one, less one.
SavedIpTested ==
  \A k \in 1 .. Len(obs'.unwind.tried) :
    LET e == obs'.unwind.tried[k]
    IN e.at = (IF e.frame = frame THEN obs'.unwind.saved
               ELSE stack[e.frame + FrameIpOffset].v) - 1

\* C40: the unwinder examines the frames from the current one outwards and
\* the entries of a frame's handler table in table order; the handler it
\* enters is the first matching entry of the innermost frame that has one,
\* every entry examined before it failed to match, and a walk that enters
\* none has found no entry that matches.  The range of an entry of the
\* current frame is tested against the ip saved at the throw, that of an
\* outer frame against the ip saved when it invoked.
C40_HandlerSelectionOrder ==
  [][Unwound =>
       LET tried == obs'.unwind.tried
       IN /\ InTableOrder
          /\ SavedIpTested
          /\ \A k \in 1 .. Len(tried) - 1 : ~Matches(tried[k])
          /\ IF obs'.unwind.now
             THEN /\ Matches(tried[Len(tried)])
                  /\ frame' = tried[Len(tried)].frame
                  /\ ip' = methods[code'].eht[tried[Len(tried)].entry].ip
             ELSE tried # << >> => ~Matches(tried[Len(tried)])
    ]_vars

\* The same for the walks in which every catch class examined is found and
\* no resolved pool slot is handed to resolveClass(t, spec).
C40_OrderWithLoadableCatch ==
  [][Unwound /\ pc' # "undefined"
       /\ (\A h \in obs'.unwind.seen : ~h.failed) => 
       LET tried == obs'.unwind.tried
       IN /\ InTableOrder
          /\ SavedIpTested
          /\ \A k \in 1 .. Len(tried) - 1 : ~Matches(tried[k])
          /\ IF obs'.unwind.now
             THEN /\ Matches(tried[Len(tried)])
                  /\ frame' = tried[Len(tried)].frame
                  /\ ip' = methods[code'].eht[tried[Len(tried)].entry].ip
             ELSE tried # << >> => ~Matches(tried[Len(tried)])
    ]_vars

====
